---- MODULE Spec2Model ----
(***************************************************************************)
(* Model of the bibus mention-to-action pipeline:                          *)
(*   - the GitLab watcher (src/lib/watch.ts) with its in-progress set,     *)
(*   - the Jira watcher (src/lib/jira/jira-watcher.ts and its later        *)
(*     revision src/unnamed/part_016) with its processed-comment set,      *)
(*   - the OpenCode session event loop (src/lib/opencode/opencode-helper.ts)*)
(*     and the MCP post_review_comment handler                             *)
(*     (src/lib/gitlab/mcp-review-server.ts),                              *)
(*   - one run of a workflow (src/lib/opencode/review.ts, question.ts and  *)
(*     processMention of the Jira watcher) with its workspace and comments,*)
(*   - the MCP server process with its merge request version cache,        *)
(*   - the durable store of processed comments (src/lib/jira/jira-state.ts),*)
(*   - the mention router (determineMessageType).                          *)
(* The components share no state; each has its own specification over the  *)
(* common variable tuple.                                                  *)
(***************************************************************************)
EXTENDS Integers, Sequences, FiniteSets, Bags, TLC

\* ---------------------------------------------------------------- bounds
\* number of poll ticks of one watcher that may overlap
MaxPolls == 2
\* number of GitLab to-do items the platform may return
NItems == 3
\* number of Jira issues
NIssues == 1
\* number of Jira comments, spread over the issues
NComments == 2
\* number of times the process may crash and restart
MaxRestarts == 1
\* number of tool invocations the AI session may make
MaxCalls == 2
\* number of events the OpenCode server may put on the event stream
MaxEvents == 4
\* capacity of the event stream buffer between server and consumer
MaxStream == 2
\* number of versions the merge request may get while it is reviewed
MaxVersions == 2
\* number of days the clock of the durable store may advance
MaxDays == 8
\* number of words in the response of the classification session
MaxWords == 2

Items == 1..NItems
Issues == 1..NIssues
Comments == 1..NComments

VARIABLES
    \* GitLab watcher (watch.ts)
    MRS_IN_PROGRESS,    \* Set<number> of merge request ids being processed
    polls,              \* bag of the detectCommands invocations that are running
    mapped,             \* what each callback of the latest mentions.map call did
    processUp,          \* the bot process is running
    todoLog,            \* what became of the to-dos: finished, dispatched again
    \* Jira watcher (jira-watcher.ts / part_016)
    PROCESSED_COMMENTS, \* Set<string> of comment ids already processed
    jiraVersion,        \* which revision of the watcher runs
    production,         \* Bun.env.NODE_ENV === "production"
    jpolls,             \* bag of the detectMentions invocations that are running
    dispatchCount,      \* number of processMention calls per comment id
    restarts,           \* number of process restarts so far
    rescanned,          \* comment ids a scan returned again after they were dispatched
    selfDispatched,     \* processMention was called for a comment the bot authored
    \* OpenCode session (opencode-helper.ts) and MCP handler (mcp-review-server.ts)
    sessKind,           \* "review": createReviewSession, "prompt": promptAndWaitForResponse
    sessPc,             \* position of the session function
    subscribed,         \* client.event.subscribe() has resolved
    loopState,          \* the eventProcessor coroutine: notStarted, running, ended
    promptSent,         \* client.session.prompt has been called
    stream,             \* events.stream: events delivered and not yet consumed
    responseText,       \* ids of the text parts appended to responseText
    commentCount,       \* let commentCount
    processedToolCalls, \* Set<string> of call ids
    error,              \* let error: Error | null (TRUE: set)
    aiDone,             \* the AI session has emitted its terminal event
    calls,              \* number of tool invocations the AI session has made
    emitted,            \* number of events put on the stream so far
    posted,             \* discussions created by the MCP handler, per call id
    deliveries,         \* completed post_review_comment events consumed, per call id
    errDelivered,       \* a session.error event of the session was consumed
    missed,             \* an event of the session was emitted without a subscriber
    idleDelivered,      \* a session.idle event of the session was consumed
    streamState,        \* events.stream: open, closed (iteration done), failed (iteration threw)
    promptFailed,       \* await client.session.prompt has rejected
    textParts,          \* number of text parts the AI session has completed
    otherDelivered,     \* an event of another session was consumed
    \* one workflow run (review.ts, question.ts, processMention)
    wfKind,             \* which workflow function runs
    wfPc,               \* the await the workflow is at
    initialDiscussion,  \* const initialDiscussion: unknown, found, missing
    linked,             \* config/jira.json links the Jira project to a GitLab project
    workspace,          \* the temporary clone directory: none, provisioned, released
    aiSessions,         \* number of OpenCode sessions the run has created
    wfComments,         \* number of comments the run has posted, per class
    wfCause,            \* what made the first await of the run reject
    wfThrowing,         \* an error is on its way out of the try block
    addCommentFailed,   \* a jiraClient.addComment of the run has rejected
    \* the MCP server process (mcp-review-server.ts)
    mrVersionCache,     \* the cached version of the merge request, 0: no entry
    upstream,           \* the latest version of the merge request on GitLab
    toolCalls,          \* the post_review_comment calls and where their handler is
    finding,            \* the arguments of the call whose body is built
    body,               \* the discussion built from finding
    answer,             \* what the handler answered for finding
    passVersion,        \* latest version of the merge request when the running review pass began
    \* the durable store of processed comments (jira-state.ts)
    stateFile,          \* .state/jira-processed-comments.json: timestamp per comment id
    now,                \* Date.now(), counted from the start of the model
    maxAgeEnv,          \* process.env.JIRA_STATE_MAX_AGE_DAYS
    reply,              \* what the last getProcessedComments or isProcessed returned
    pruned,             \* the ids whose entries the last operation dropped
    wrote,              \* the last operation called writeState
    \* the mention router (part_012)
    platform,           \* the platform argument of determineMessageType
    response,           \* the response of the classification session, as words
    messageType,        \* the value determineMessageType returns, "" before
    \* one call of findMentionComment (jira-utils.ts, jira-watcher.ts)
    findRevision,       \* which revision of the function is called
    findProduction,     \* Bun.env.NODE_ENV === "production"
    findComments,       \* the comments argument, in the order the platform returned them
    findProcessed,      \* the processed set (argument or PROCESSED_COMMENTS)
    findResult          \* id of the comment returned, 0 for null, NoNumber before the call

watchVars == <<MRS_IN_PROGRESS, polls, mapped, processUp, todoLog>>
jiraVars == <<PROCESSED_COMMENTS, jiraVersion, production, jpolls,
              dispatchCount, restarts, rescanned,
             selfDispatched>>
sessVars == <<sessKind, sessPc, subscribed, loopState, promptSent, stream,
              responseText, commentCount, processedToolCalls, error, aiDone,
              calls, emitted, posted, deliveries, errDelivered, missed,
              idleDelivered, streamState, promptFailed, textParts,
              otherDelivered>>
flowVars == <<wfKind, wfPc, initialDiscussion, linked, workspace, aiSessions,
              wfComments, wfCause, wfThrowing, addCommentFailed>>
mcpVars == <<mrVersionCache, upstream, toolCalls, finding, body, answer,
             passVersion>>
storeVars == <<stateFile, now, maxAgeEnv, reply, pruned, wrote>>
routerVars == <<platform, response, messageType>>
findVars == <<findRevision, findProduction, findComments, findProcessed,
              findResult>>
vars == <<watchVars, jiraVars, sessVars, flowVars, mcpVars, storeVars,
          routerVars, findVars>>

\* ======================================================================
\* GitLab watcher: src/lib/watch.ts
\* ======================================================================

\* item.target.id of a to-do: two to-dos per merge request
Target(i) == (i + 1) \div 2

MRs == {Target(i) : i \in Items}

\* a callback that is running a workflow (between MRS_IN_PROGRESS.add and
\* the end of the switch)
WorkStates == {"review", "general_question", "test"}
ActiveStates == {"classify"} \cup WorkStates
\* a callback whose promise has settled, or a to-do the scan did not return
\* (Promise.allSettled discards the outcome)
SettledStates == {"none"}
\* what a callback did in the synchronous part of the map call: "skipped"
\* returned at the MRS_IN_PROGRESS.has test, "nobody" at the body test,
\* "classify" suspended at determineMessageType, "none" no callback
MapOutcomes == {"none", "skipped", "nobody", "classify"}

NoTasks == [i \in Items |-> "none"]

\* a detectCommands invocation suspended at getCurrentUser / getTodos
Scanning == [pc |-> "scan", task |-> NoTasks]
\* a detectCommands invocation suspended at Promise.allSettled, its map
\* callbacks at the positions tp
Mapping(tp) == [pc |-> "awaitAll", task |-> tp]

\* the callbacks of a map call with outcomes tp that are still pending
Pending(tp) == [i \in Items |-> IF tp[i] = "classify" THEN "classify" ELSE "none"]

\* the bag b with one copy of old replaced by new
Replace(b, old, new) == (b (-) SetToBag({old})) (+) SetToBag({new})

\* MapMentions without the MRS_IN_PROGRESS.has test of line 170
RECURSIVE MapMentionsNoCheck(_, _, _, _, _)
MapMentionsNoCheck(i, mentions, nobody, inprog, tp) ==
    IF i > NItems THEN [inprog |-> inprog, tp |-> tp]
    ELSE IF i \notin mentions
         THEN MapMentionsNoCheck(i + 1, mentions, nobody, inprog, tp)
    ELSE IF i \in nobody
         THEN MapMentionsNoCheck(i + 1, mentions, nobody, inprog,
                                 [tp EXCEPT ![i] = "nobody"])
    ELSE MapMentionsNoCheck(i + 1, mentions, nobody, inprog \cup {Target(i)},
                            [tp EXCEPT ![i] = "classify"])

\* MapMentions with MRS_IN_PROGRESS.add moved behind the first await, so that
\* the callbacks of one map call do not see each other's entries
RECURSIVE MapMentionsLateAdd(_, _, _, _, _)
MapMentionsLateAdd(i, mentions, nobody, inprog, tp) ==
    IF i > NItems
    THEN [inprog |-> inprog \cup {Target(j) : j \in {m \in mentions : tp[m] = "classify"}},
          tp |-> tp]
    ELSE IF i \notin mentions
         THEN MapMentionsLateAdd(i + 1, mentions, nobody, inprog, tp)
    ELSE IF Target(i) \in inprog
         THEN MapMentionsLateAdd(i + 1, mentions, nobody, inprog,
                                 [tp EXCEPT ![i] = "skipped"])
    ELSE IF i \in nobody
         THEN MapMentionsLateAdd(i + 1, mentions, nobody, inprog,
                                 [tp EXCEPT ![i] = "nobody"])
    ELSE MapMentionsLateAdd(i + 1, mentions, nobody, inprog,
                            [tp EXCEPT ![i] = "classify"])

\* The synchronous part of mentions.map(async (item) => ...): every callback
\* runs up to its first await before the next one starts.  Returns the
\* in-progress set and the callbacks' positions after the map call.
RECURSIVE MapMentions(_, _, _, _, _)
MapMentions(i, mentions, nobody, inprog, tp) ==
    IF i > NItems THEN [inprog |-> inprog, tp |-> tp]
    ELSE IF i \notin mentions
         THEN MapMentions(i + 1, mentions, nobody, inprog, tp)
    ELSE IF Target(i) \in inprog
         THEN MapMentions(i + 1, mentions, nobody, inprog,
                          [tp EXCEPT ![i] = "skipped"])
    ELSE IF i \in nobody
         THEN MapMentions(i + 1, mentions, nobody, inprog,
                          [tp EXCEPT ![i] = "nobody"])
    ELSE MapMentions(i + 1, mentions, nobody, inprog \cup {Target(i)},
                     [tp EXCEPT ![i] = "classify"])

\* the record of what became of the to-dos, kept only where a property asks
\* for it (on): finished, the to-dos whose workflow ran to its end and
\* returned while no other detectCommands invocation was running; again,
\* those of them that a map call, hence one of a later poll, dispatched once
\* more
LogOff == [on |-> FALSE, finished |-> {}, again |-> {}]
LogOn == [on |-> TRUE, finished |-> {}, again |-> {}]

\* the workflow of to-do i has returned; alone: the invocation it belongs
\* to is the only one running
Finished(log, i, alone) ==
    IF log.on /\ alone THEN [log EXCEPT !.finished = @ \cup {i}] ELSE log

\* a map call has started the callbacks of the to-dos in started
Dispatched(log, started) ==
    IF log.on THEN [log EXCEPT !.again = @ \cup (started \cap log.finished)]
    ELSE log

\* setInterval callback / initial call: a new detectCommands starts and
\* suspends at its awaits of getCurrentUser and getTodos
PollTick ==
    /\ processUp
    /\ BagCardinality(polls) < MaxPolls
    /\ polls' = polls (+) SetToBag({Scanning})
    /\ UNCHANGED <<todoLog, MRS_IN_PROGRESS, mapped, processUp, jiraVars, sessVars, flowVars, mcpVars, storeVars, routerVars, findVars>>

\* getCurrentUser or getTodos rejects: detectCommands has no try/catch and
\* rejects, nothing is dispatched in this tick.  The rejection of the initial
\* call rejects startWatching and ends the program at the caller's top-level
\* await; the rejection of a setInterval callback is an unhandled rejection,
\* which the runtime either only reports or turns into a fatal error.
PollFail ==
    /\ BagIn(Scanning, polls)
    /\ \/ /\ polls' = polls (-) SetToBag({Scanning})
          /\ UNCHANGED <<MRS_IN_PROGRESS, mapped, processUp>>
       \/ /\ processUp' = FALSE
          /\ polls' = EmptyBag
          /\ MRS_IN_PROGRESS' = {}
          /\ mapped' = NoTasks
    /\ UNCHANGED <<todoLog, jiraVars, sessVars, flowVars, mcpVars, storeVars, routerVars, findVars>>

\* the filter of lines 152-159 on the pending to-dos `todos`, of which those
\* in `selfs` are authored by the bot: the direct mentions by other users
DirectMentions(todos, selfs) == todos \ selfs

\* the lists `mentions` the filter can produce
MentionLists ==
    {DirectMentions(todos, selfs) : todos \in SUBSET Items, selfs \in SUBSET Items}

\* await getTodos resolves and the filter yields `mentions`, of which those
\* in `nobody` have an empty body.  The filter and the synchronous part of
\* every map callback run in this one step.
PollDispatch ==
    /\ BagIn(Scanning, polls)
    /\ \E mentions \in MentionLists :
       \E nobody \in SUBSET mentions :
          LET r == MapMentions(1, mentions, nobody, MRS_IN_PROGRESS, NoTasks)
          IN /\ MRS_IN_PROGRESS' = r.inprog
             /\ polls' = Replace(polls, Scanning, Mapping(Pending(r.tp)))
             /\ mapped' = r.tp
             /\ todoLog' = Dispatched(todoLog, {i \in Items : r.tp[i] = "classify"})
    /\ UNCHANGED <<processUp, jiraVars, sessVars, flowVars, mcpVars, storeVars, routerVars, findVars>>

\* await determineMessageType resolves with one of GITLAB_COMMANDS
ClassifyReturn ==
    /\ \E e \in BagToSet(polls) : \E i \in Items :
       /\ e.task[i] = "classify"
       /\ \E type \in WorkStates :
             polls' = Replace(polls, e, [e EXCEPT !.task[i] = type])
    /\ UNCHANGED <<todoLog, MRS_IN_PROGRESS, mapped, processUp, jiraVars, sessVars, flowVars, mcpVars, storeVars, routerVars, findVars>>

\* await determineMessageType rejects: the callback rejects at line 182
ClassifyThrow ==
    /\ \E e \in BagToSet(polls) : \E i \in Items :
       /\ e.task[i] = "classify"
       /\ polls' = Replace(polls, e, [e EXCEPT !.task[i] = "none"])
    /\ UNCHANGED <<todoLog, MRS_IN_PROGRESS, mapped, processUp, jiraVars, sessVars, flowVars, mcpVars, storeVars, routerVars, findVars>>

\* reviewMergeRequest / answerQuestion / testMergeRequest resolves, then
\* MRS_IN_PROGRESS.delete(item.target.id)
WorkReturn ==
    /\ \E e \in BagToSet(polls) : \E i \in Items :
       /\ e.task[i] \in WorkStates
       /\ MRS_IN_PROGRESS' = MRS_IN_PROGRESS \ {Target(i)}
       /\ polls' = Replace(polls, e, [e EXCEPT !.task[i] = "none"])
       /\ todoLog' = Finished(todoLog, i, BagCardinality(polls) = 1)
    /\ UNCHANGED <<mapped, processUp, jiraVars, sessVars, flowVars, mcpVars, storeVars, routerVars, findVars>>

\* WorkThrow under Promise.all instead of Promise.allSettled: the first
\* rejection rejects detectCommands
WorkThrowFailsPoll ==
    /\ \E e \in BagToSet(polls) : \E i \in Items :
       /\ e.task[i] \in WorkStates
       /\ polls' = polls (-) SetToBag({e})
    /\ UNCHANGED <<todoLog, MRS_IN_PROGRESS, mapped, processUp, jiraVars, sessVars, flowVars, mcpVars, storeVars, routerVars, findVars>>

\* the workflow rejects: the callback rejects inside the switch
WorkThrow ==
    /\ \E e \in BagToSet(polls) : \E i \in Items :
       /\ e.task[i] \in WorkStates
       /\ polls' = Replace(polls, e, [e EXCEPT !.task[i] = "none"])
    /\ UNCHANGED <<todoLog, MRS_IN_PROGRESS, mapped, processUp, jiraVars, sessVars, flowVars, mcpVars, storeVars, routerVars, findVars>>

\* Promise.allSettled resolves: detectCommands returns
PollEnd ==
    /\ \E e \in BagToSet(polls) :
       /\ e.pc = "awaitAll"
       /\ \A i \in Items : e.task[i] \in SettledStates
       /\ polls' = polls (-) SetToBag({e})
    /\ UNCHANGED <<todoLog, MRS_IN_PROGRESS, mapped, processUp, jiraVars, sessVars, flowVars, mcpVars, storeVars, routerVars, findVars>>

InitWatch ==
    /\ todoLog = LogOff
    /\ MRS_IN_PROGRESS = {}
    /\ polls = EmptyBag
    /\ mapped = NoTasks
    /\ processUp = TRUE

\* the watcher at its start, with the record of the to-dos kept
InitWatchLog ==
    /\ todoLog = LogOn
    /\ MRS_IN_PROGRESS = {}
    /\ polls = EmptyBag
    /\ mapped = NoTasks
    /\ processUp = TRUE

NextWatch ==
    \/ PollTick
    \/ PollFail
    \/ PollDispatch
    \/ ClassifyReturn
    \/ ClassifyThrow
    \/ WorkReturn
    \/ WorkThrow
    \/ PollEnd

\* ======================================================================
\* Jira watcher: src/lib/jira/jira-watcher.ts ("watcher") and its later
\* revision src/unnamed/part_016 ("part016")
\* ======================================================================

\* the issue a comment belongs to; comment ids grow with creation time
IssueOf(c) == ((c - 1) % NIssues) + 1

CommentsOf(k) == {c \in Comments : IssueOf(c) = k}

NewestFirst(cs) == IF cs = {} THEN 0 ELSE CHOOSE c \in cs : \A d \in cs : d <= c

\* findMentionComment without the PROCESSED_COMMENTS.has test of line 60
RECURSIVE findMentionCommentNoSkip(_, _, _, _)
findMentionCommentNoSkip(cs, bots, ments, processed) ==
    IF cs = {} THEN [found |-> 0, processed |-> processed]
    ELSE LET c == NewestFirst(cs)
         IN IF c \in bots
            THEN findMentionCommentNoSkip(cs \ {c}, bots, ments, processed)
            ELSE IF c \in ments
            THEN [found |-> c, processed |-> processed]
            ELSE findMentionCommentNoSkip(cs \ {c}, bots, ments, processed)

\* findMentionComment of jira-watcher.ts: the loop over the comments sorted
\* newest first.  cs: the comments still to visit, bots: those authored by the
\* bot, ments: those whose body contains the bot's account id.
RECURSIVE findMentionComment(_, _, _, _)
findMentionComment(cs, bots, ments, processed) ==
    IF cs = {} THEN [found |-> 0, processed |-> processed]
    ELSE LET c == NewestFirst(cs)
         IN IF c \in bots
            THEN findMentionComment(cs \ {c}, bots, ments, processed)
            ELSE IF c \in processed
            THEN findMentionComment(cs \ {c}, bots, ments, processed)
            ELSE IF c \in ments
            THEN [found |-> c, processed |-> processed]
            ELSE findMentionComment(cs \ {c}, bots, ments, processed)

\* findMentionComment of part_016: the bot's own comments are skipped only in
\* production, and every comment that passes the two skips is added to
\* PROCESSED_COMMENTS before its body is examined.
RECURSIVE findMentionComment16(_, _, _, _, _)
findMentionComment16(cs, bots, ments, processed, prod) ==
    IF cs = {} THEN [found |-> 0, processed |-> processed]
    ELSE LET c == NewestFirst(cs)
         IN IF c \in bots /\ prod
            THEN findMentionComment16(cs \ {c}, bots, ments, processed, prod)
            ELSE IF c \in processed
            THEN findMentionComment16(cs \ {c}, bots, ments, processed, prod)
            ELSE IF c \in ments
            THEN [found |-> c, processed |-> processed \cup {c}]
            ELSE findMentionComment16(cs \ {c}, bots, ments,
                                      processed \cup {c}, prod)

\* processMention marking the comment only after the workflow, not in its head
processMentionHeadLate(version, c, processed) == processed

\* processMention marking every comment of the issue, not only its own
processMentionHeadIssue(version, c, processed) ==
    processed \cup {d \in Comments : IssueOf(d) = IssueOf(c)}

\* the synchronous head of processMention, up to its first await:
\* jira-watcher.ts adds the comment id to PROCESSED_COMMENTS (line 130),
\* part_016 does not (findMentionComment already did).
processMentionHead(version, c, processed) ==
    IF version = "watcher" THEN processed \cup {c} ELSE processed

\* a callback whose promise has settled, or an issue the scan did not
\* return (Promise.allSettled discards the outcome)
JSettledStates == {"none"}
\* a callback inside processMention, suspended at an await
JWorkflowStates == {"classify", "workflow", "errorComment"}

NoJTasks == [k \in Issues |-> "none"]
NoJComments == [k \in Issues |-> 0]

\* a detectMentions invocation suspended at getCurrentUser / getMentions
JScanning == [pc |-> "scan", task |-> NoJTasks, comment |-> NoJComments]

\* the callback of issue k of invocation e moves to position pc, holding
\* comment c (0: none)
JMove(e, k, pc, c) == [e EXCEPT !.task[k] = pc, !.comment[k] = c]

\* setInterval callback / initial call: a new detectMentions starts and
\* suspends at its awaits of getCurrentUser and getMentions
JPollTick ==
    /\ BagCardinality(jpolls) < MaxPolls
    /\ jpolls' = jpolls (+) SetToBag({JScanning})
    /\ UNCHANGED <<watchVars, sessVars, flowVars, mcpVars, storeVars, routerVars, findVars, PROCESSED_COMMENTS, jiraVersion, production,
                   dispatchCount, restarts, rescanned, selfDispatched>>

\* getCurrentUser or getMentions rejects: caught and logged by detectMentions
JPollFail ==
    /\ BagIn(JScanning, jpolls)
    /\ jpolls' = jpolls (-) SetToBag({JScanning})
    /\ UNCHANGED <<watchVars, sessVars, flowVars, mcpVars, storeVars, routerVars, findVars, PROCESSED_COMMENTS, jiraVersion, production,
                   dispatchCount, restarts, rescanned, selfDispatched>>

\* await getMentions resolves with the issues `mentions`; every map callback
\* runs up to its await of getComments
JGetMentions(mentions) ==
    jpolls' = Replace(jpolls, JScanning,
                      [pc |-> "awaitAll",
                       task |-> [k \in Issues |->
                                   IF k \in mentions THEN "getComments"
                                   ELSE "none"],
                       comment |-> NoJComments])

\* await getMentions resolves, with any issues the scan may return
JGetMentionsReturn ==
    /\ BagIn(JScanning, jpolls)
    /\ \E mentions \in SUBSET Issues : JGetMentions(mentions)
    /\ UNCHANGED <<watchVars, sessVars, flowVars, mcpVars, storeVars, routerVars, findVars, PROCESSED_COMMENTS, jiraVersion, production,
                   dispatchCount, restarts, rescanned, selfDispatched>>

\* await getComments of the callback of issue k of invocation e resolves
\* with the comments cs, of which bots are authored by the bot and ments
\* contain its account id.  Without any suspension the callback runs
\* findMentionComment and, if a comment is found, calls processMention, which
\* runs up to its await of determineMessageType.
JGetComments(e, k, cs, bots, ments) ==
    LET r == IF jiraVersion = "watcher"
             THEN findMentionComment(cs, bots, ments, PROCESSED_COMMENTS)
             ELSE findMentionComment16(cs, bots, ments,
                                       PROCESSED_COMMENTS, production)
    IN /\ rescanned' = rescanned \cup
                          {c \in (ments \ bots) \cap PROCESSED_COMMENTS :
                              dispatchCount[c] > 0}
       /\ IF r.found = 0
          THEN /\ PROCESSED_COMMENTS' = r.processed
               /\ jpolls' = Replace(jpolls, e, JMove(e, k, "none", 0))
               /\ UNCHANGED dispatchCount
          ELSE /\ PROCESSED_COMMENTS' =
                     processMentionHead(jiraVersion, r.found, r.processed)
               /\ jpolls' = Replace(jpolls, e, JMove(e, k, "classify", r.found))
               /\ dispatchCount' = [dispatchCount EXCEPT
                                      ![r.found] = dispatchCount[r.found] + 1]
       /\ selfDispatched' = (selfDispatched \/ r.found \in bots)

\* await getComments resolves, with any comments the issue may hold
JGetCommentsReturn ==
    /\ \E e \in BagToSet(jpolls) : \E k \in Issues :
       /\ e.task[k] = "getComments"
       /\ \E cs \in SUBSET CommentsOf(k) :
          \E bots \in SUBSET cs :
          \E ments \in SUBSET cs :
             JGetComments(e, k, cs, bots, ments)
    /\ UNCHANGED <<watchVars, sessVars, flowVars, mcpVars, storeVars, routerVars, findVars, jiraVersion, production, restarts>>

\* await getComments rejects: the callback rejects
JGetCommentsThrow ==
    /\ \E e \in BagToSet(jpolls) : \E k \in Issues :
       /\ e.task[k] = "getComments"
       /\ jpolls' = Replace(jpolls, e, JMove(e, k, "none", 0))
    /\ UNCHANGED <<watchVars, sessVars, flowVars, mcpVars, storeVars, routerVars, findVars, PROCESSED_COMMENTS, jiraVersion, production,
                   dispatchCount, restarts, rescanned, selfDispatched>>

\* await determineMessageType resolves: processMention enters its try block
JClassifyReturn ==
    /\ \E e \in BagToSet(jpolls) : \E k \in Issues :
       /\ e.task[k] = "classify"
       /\ jpolls' = Replace(jpolls, e, JMove(e, k, "workflow", e.comment[k]))
    /\ UNCHANGED <<watchVars, sessVars, flowVars, mcpVars, storeVars, routerVars, findVars, PROCESSED_COMMENTS, jiraVersion, production,
                   dispatchCount, restarts, rescanned, selfDispatched>>

\* await determineMessageType rejects, outside the try block: processMention
\* rejects
JClassifyThrow ==
    /\ \E e \in BagToSet(jpolls) : \E k \in Issues :
       /\ e.task[k] = "classify"
       /\ jpolls' = Replace(jpolls, e, JMove(e, k, "none", 0))
    /\ UNCHANGED <<watchVars, sessVars, flowVars, mcpVars, storeVars, routerVars, findVars, PROCESSED_COMMENTS, jiraVersion, production,
                   dispatchCount, restarts, rescanned, selfDispatched>>

\* the switch of processMention completes (clone, session, comment posted)
JWorkflowReturn ==
    /\ \E e \in BagToSet(jpolls) : \E k \in Issues :
       /\ e.task[k] = "workflow"
       /\ jpolls' = Replace(jpolls, e, JMove(e, k, "none", 0))
    /\ UNCHANGED <<watchVars, sessVars, flowVars, mcpVars, storeVars, routerVars, findVars, PROCESSED_COMMENTS, jiraVersion, production,
                   dispatchCount, restarts, rescanned, selfDispatched>>

\* something inside the try block throws: the catch posts an error comment
JWorkflowThrow ==
    /\ \E e \in BagToSet(jpolls) : \E k \in Issues :
       /\ e.task[k] = "workflow"
       /\ jpolls' = Replace(jpolls, e, JMove(e, k, "errorComment", e.comment[k]))
    /\ UNCHANGED <<watchVars, sessVars, flowVars, mcpVars, storeVars, routerVars, findVars, PROCESSED_COMMENTS, jiraVersion, production,
                   dispatchCount, restarts, rescanned, selfDispatched>>

\* await jiraClient.addComment of the catch block settles (a failure is
\* caught and logged): processMention returns
JErrorCommentSettled ==
    /\ \E e \in BagToSet(jpolls) : \E k \in Issues :
       /\ e.task[k] = "errorComment"
       /\ jpolls' = Replace(jpolls, e, JMove(e, k, "none", 0))
    /\ UNCHANGED <<watchVars, sessVars, flowVars, mcpVars, storeVars, routerVars, findVars, PROCESSED_COMMENTS, jiraVersion, production,
                   dispatchCount, restarts, rescanned, selfDispatched>>

\* Promise.allSettled resolves: detectMentions returns
JPollEnd ==
    /\ \E e \in BagToSet(jpolls) :
       /\ e.pc = "awaitAll"
       /\ \A k \in Issues : e.task[k] \in JSettledStates
       /\ jpolls' = jpolls (-) SetToBag({e})
    /\ UNCHANGED <<watchVars, sessVars, flowVars, mcpVars, storeVars, routerVars, findVars, PROCESSED_COMMENTS, jiraVersion, production,
                   dispatchCount, restarts, rescanned, selfDispatched>>

\* the process crashes and is started again: the module-level Set is created
\* anew (line 12) and every running poll is gone
Restart ==
    /\ restarts < MaxRestarts
    /\ restarts' = restarts + 1
    /\ PROCESSED_COMMENTS' = {}
    /\ jpolls' = EmptyBag
    /\ rescanned' = {}
    /\ UNCHANGED <<watchVars, sessVars, flowVars, mcpVars, storeVars, routerVars, findVars, jiraVersion, production, dispatchCount,
                   selfDispatched>>

\* Bun.env.NODE_ENV is read by part_016 only
InitJira ==
    /\ PROCESSED_COMMENTS = {}
    /\ jiraVersion \in {"watcher", "part016"}
    /\ production \in (IF jiraVersion = "watcher" THEN {TRUE} ELSE BOOLEAN)
    /\ jpolls = EmptyBag
    /\ dispatchCount = [c \in Comments |-> 0]
    /\ restarts = 0
    /\ rescanned = {}
    /\ selfDispatched = FALSE

NextJira ==
    \/ JPollTick
    \/ JPollFail
    \/ JGetMentionsReturn
    \/ JGetCommentsReturn
    \/ JGetCommentsThrow
    \/ JClassifyReturn
    \/ JClassifyThrow
    \/ JWorkflowReturn
    \/ JWorkflowThrow
    \/ JErrorCommentSettled
    \/ JPollEnd

NextJiraRestart == NextJira \/ Restart

\* ----------------------------------------------------------------------
\* Polling of issues that stay as they are: every scan returns every issue
\* (each stays inside the scan window), and every issue keeps all its
\* comments, each written by a user and mentioning the bot
\* ----------------------------------------------------------------------

\* await getMentions resolves with every issue
JGetMentionsAll ==
    /\ BagIn(JScanning, jpolls)
    /\ JGetMentions(Issues)
    /\ UNCHANGED <<watchVars, sessVars, flowVars, mcpVars, storeVars, routerVars, findVars, PROCESSED_COMMENTS, jiraVersion, production,
                   dispatchCount, restarts, rescanned, selfDispatched>>

\* await getComments of issue k resolves with all its comments
JGetCommentsAll(k) ==
    /\ \E e \in BagToSet(jpolls) :
       /\ e.task[k] = "getComments"
       /\ JGetComments(e, k, CommentsOf(k), {}, CommentsOf(k))
    /\ UNCHANGED <<watchVars, sessVars, flowVars, mcpVars, storeVars, routerVars, findVars, jiraVersion, production, restarts>>

NextJiraPolling ==
    \/ JPollTick
    \/ JPollFail
    \/ JGetMentionsAll
    \/ \E k \in Issues : JGetCommentsAll(k)
    \/ JGetCommentsThrow
    \/ JClassifyReturn
    \/ JClassifyThrow
    \/ JWorkflowReturn
    \/ JWorkflowThrow
    \/ JErrorCommentSettled
    \/ JPollEnd

\* a callback of issue k is suspended at its await of getComments: the
\* states in which JGetCommentsAll(k) is enabled
JAwaitsComments(k) == \E e \in BagToSet(jpolls) : e.task[k] = "getComments"

\* polling continues: setInterval keeps calling detectMentions (lines
\* 415-420), every await of a running invocation settles, and the calls of
\* getMentions and getComments succeed again and again (strong fairness;
\* the one of JGetCommentsAll(k) is written with its enabling condition)
FairJiraPolling ==
    /\ WF_vars(JPollTick)
    /\ SF_vars(JGetMentionsAll)
    /\ \A k \in Issues :
          []<>JAwaitsComments(k) => []<><<JGetCommentsAll(k)>>_vars
    /\ WF_vars(JClassifyReturn \/ JClassifyThrow)
    /\ WF_vars(JWorkflowReturn \/ JWorkflowThrow)
    /\ WF_vars(JErrorCommentSettled)
    /\ WF_vars(JPollEnd)

\* ======================================================================
\* OpenCode session: src/lib/opencode/opencode-helper.ts
\* (createReviewSession, promptAndWaitForResponse) and the MCP tool handler
\* of src/lib/gitlab/mcp-review-server.ts
\* ======================================================================

CallIds == 1..MaxCalls

\* the events of the stream: message.part.updated with a completed text part
\* ("text"), with a post_review_comment tool part in state completed
\* ("toolCompleted") or error ("toolError"), with another tool's part
\* ("toolOther"); session.idle ("idle") and session.error ("error").
\* own: the event carries the sessionID of this session.
Event(kind, own, id) == [kind |-> kind, own |-> own, id |-> id]

\* CreateSession with the prompt sent right after the session is created,
\* before the event subscription
CreateSessionPromptFirst ==
    /\ sessPc = "create"
    /\ sessPc' = "subscribe"
    /\ promptSent' = TRUE
    /\ UNCHANGED <<watchVars, jiraVars, flowVars, mcpVars, storeVars, routerVars, findVars, idleDelivered, otherDelivered, streamState, promptFailed,
                   sessKind, textParts, subscribed, loopState,
                   stream, responseText, commentCount,
                   processedToolCalls, error, aiDone, calls, emitted, posted,
                   deliveries, errDelivered, missed>>

\* await client.session.create() resolves with a session id
CreateSession ==
    /\ sessPc = "create"
    /\ sessPc' = "subscribe"
    /\ UNCHANGED <<watchVars, jiraVars, flowVars, mcpVars, storeVars, routerVars, findVars, idleDelivered, otherDelivered, streamState, promptFailed,
                   sessKind, textParts, subscribed, loopState,
                   promptSent, stream, responseText, commentCount,
                   processedToolCalls, error, aiDone, calls, emitted, posted,
                   deliveries, errDelivered, missed>>

\* session.create() rejects or returns no id, or event.subscribe() rejects:
\* the session function throws before any prompt is sent
SetupThrow ==
    /\ sessPc \in {"create", "subscribe"}
    /\ sessPc' = "thrown"
    /\ UNCHANGED <<watchVars, jiraVars, flowVars, mcpVars, storeVars, routerVars, findVars, idleDelivered, otherDelivered, streamState, promptFailed,
                   sessKind, textParts, subscribed, loopState,
                   promptSent, stream, responseText, commentCount,
                   processedToolCalls, error, aiDone, calls, emitted, posted,
                   deliveries, errDelivered, missed>>

\* await client.event.subscribe() resolves (lines 106 / 240)
Subscribe ==
    /\ sessPc = "subscribe"
    /\ subscribed' = TRUE
    /\ sessPc' = "startLoop"
    /\ UNCHANGED <<watchVars, jiraVars, flowVars, mcpVars, storeVars, routerVars, findVars, idleDelivered, otherDelivered, streamState, promptFailed,
                   sessKind, textParts, loopState, promptSent,
                   stream, responseText, commentCount, processedToolCalls,
                   error, aiDone, calls, emitted, posted, deliveries,
                   errDelivered, missed>>

\* const eventProcessor = (async () => { for await ... })() runs up to its
\* first await on the stream (lines 111 / 249)
StartEventProcessor ==
    /\ sessPc = "startLoop"
    /\ loopState' = "running"
    /\ sessPc' = "prompt"
    /\ UNCHANGED <<watchVars, jiraVars, flowVars, mcpVars, storeVars, routerVars, findVars, idleDelivered, otherDelivered, streamState, promptFailed,
                   sessKind, textParts, subscribed, promptSent,
                   stream, responseText, commentCount, processedToolCalls,
                   error, aiDone, calls, emitted, posted, deliveries,
                   errDelivered, missed>>

\* client.session.prompt(...) is called (lines 177 / 343)
SendPrompt ==
    /\ sessPc = "prompt"
    /\ promptSent' = TRUE
    /\ sessPc' = "awaitPrompt"
    /\ UNCHANGED <<watchVars, jiraVars, flowVars, mcpVars, storeVars, routerVars, findVars, idleDelivered, otherDelivered, streamState, promptFailed,
                   sessKind, textParts, subscribed, loopState,
                   stream, responseText, commentCount, processedToolCalls,
                   error, aiDone, calls, emitted, posted, deliveries,
                   errDelivered, missed>>

\* await client.session.prompt resolves
PromptReturn ==
    /\ sessPc = "awaitPrompt"
    /\ sessPc' = "awaitLoop"
    /\ UNCHANGED <<watchVars, jiraVars, flowVars, mcpVars, storeVars, routerVars, findVars, idleDelivered, otherDelivered, streamState, promptFailed,
                   sessKind, textParts, subscribed, loopState,
                   promptSent, stream, responseText, commentCount,
                   processedToolCalls, error, aiDone, calls, emitted, posted,
                   deliveries, errDelivered, missed>>

\* PromptThrow with the rejection of client.session.prompt caught and
\* ignored: the function goes on to await eventProcessor
PromptThrowSwallowed ==
    /\ sessPc = "awaitPrompt"
    /\ sessPc' = "awaitLoop"
    /\ promptFailed' = TRUE
    /\ UNCHANGED <<watchVars, jiraVars, flowVars, mcpVars, storeVars, routerVars, findVars, idleDelivered, otherDelivered, streamState,
                   sessKind, textParts, subscribed, loopState,
                   promptSent, stream, responseText, commentCount,
                   processedToolCalls, error, aiDone, calls, emitted, posted,
                   deliveries, errDelivered, missed>>

\* await client.session.prompt rejects (lines 177 / 343): the session function
\* throws, the eventProcessor coroutine is left running
PromptThrow ==
    /\ sessPc = "awaitPrompt"
    /\ sessPc' = "thrown"
    /\ promptFailed' = TRUE
    /\ UNCHANGED <<watchVars, jiraVars, flowVars, mcpVars, storeVars, routerVars, findVars, idleDelivered, otherDelivered, streamState,
                   sessKind, textParts, subscribed, loopState,
                   promptSent, stream, responseText, commentCount,
                   processedToolCalls, error, aiDone, calls, emitted, posted,
                   deliveries, errDelivered, missed>>

\* AwaitEventProcessor racing a timer: the function returns although the
\* eventProcessor coroutine is still running
AwaitEventProcessorTimeout ==
    /\ sessPc = "awaitLoop"
    /\ sessPc' = IF error \/ streamState = "failed" THEN "thrown" ELSE "returned"
    /\ UNCHANGED <<watchVars, jiraVars, flowVars, mcpVars, storeVars, routerVars, findVars, idleDelivered, otherDelivered, streamState, promptFailed,
                   sessKind, textParts, subscribed, loopState,
                   promptSent, stream, responseText, commentCount,
                   processedToolCalls, error, aiDone, calls, emitted, posted,
                   deliveries, errDelivered, missed>>

\* AwaitEventProcessor without the if (error) throw error of line 357
AwaitEventProcessorNoThrow ==
    /\ sessPc = "awaitLoop"
    /\ loopState = "ended"
    /\ sessPc' = "returned"
    /\ UNCHANGED <<watchVars, jiraVars, flowVars, mcpVars, storeVars, routerVars, findVars, idleDelivered, otherDelivered, streamState, promptFailed,
                   sessKind, textParts, subscribed, loopState,
                   promptSent, stream, responseText, commentCount,
                   processedToolCalls, error, aiDone, calls, emitted, posted,
                   deliveries, errDelivered, missed>>

\* await eventProcessor settles: it rejects if the iteration of the stream
\* threw; otherwise if (error) throw error; else return
\* (lines 189-200 / 355-373)
AwaitEventProcessor ==
    /\ sessPc = "awaitLoop"
    /\ loopState = "ended"
    /\ sessPc' = IF error \/ streamState = "failed" THEN "thrown" ELSE "returned"
    /\ UNCHANGED <<watchVars, jiraVars, flowVars, mcpVars, storeVars, routerVars, findVars, idleDelivered, otherDelivered, streamState, promptFailed,
                   sessKind, textParts, subscribed, loopState,
                   promptSent, stream, responseText, commentCount,
                   processedToolCalls, error, aiDone, calls, emitted, posted,
                   deliveries, errDelivered, missed>>

\* CountToolCall without the processedToolCalls.has test of line 274
CountToolCallNoDedup(e, ptc, cnt) ==
    [ptc |-> ptc \cup {e.id}, cnt |-> cnt + 1]

\* the handler of a completed post_review_comment tool part
\* (lines 268-289): count the call once per call id
CountToolCall(e, ptc, cnt) ==
    IF e.id \notin ptc
    THEN [ptc |-> ptc \cup {e.id}, cnt |-> cnt + 1]
    ELSE [ptc |-> ptc, cnt |-> cnt]

\* LoopAfter without the break of the session.idle branch (line 325)
LoopAfterNoIdleBreak(e) ==
    IF e.own /\ e.kind = "error" THEN "ended" ELSE "running"

\* LoopAfter with a break in the branch of a tool part in state error
\* (line 299)
LoopAfterToolErrorBreak(e) ==
    IF e.own /\ e.kind \in {"idle", "error", "toolError"}
    THEN "ended" ELSE "running"

\* LoopAfter without the break of the session.error branch (line 337)
LoopAfterNoErrorBreak(e) ==
    IF e.own /\ e.kind = "idle" THEN "ended" ELSE "running"

\* LoopAfter without the sessionID tests of lines 322 and 331
LoopAfterAnySession(e) ==
    IF e.kind \in {"idle", "error"} THEN "ended" ELSE "running"

\* the loop after event e: session.idle and session.error of this session
\* break out of it (lines 150-172 / 319-338)
LoopAfter(e) ==
    IF e.own /\ e.kind \in {"idle", "error"} THEN "ended" ELSE "running"

\* one iteration of for await (const event of events.stream)
\* (lines 112-173 / 250-339)
ConsumeEvent ==
    /\ loopState = "running"
    /\ stream # <<>>
    /\ LET e == Head(stream)
           r == CountToolCall(e, processedToolCalls, commentCount)
       IN /\ stream' = Tail(stream)
          /\ responseText' = IF e.own /\ e.kind = "text"
                             THEN Append(responseText, e.id) ELSE responseText
          /\ IF e.own /\ e.kind = "toolCompleted" /\ sessKind = "review"
             THEN /\ processedToolCalls' = r.ptc
                  /\ commentCount' = r.cnt
             ELSE UNCHANGED <<processedToolCalls, commentCount>>
          /\ error' = (error \/ (e.own /\ e.kind = "error"))
          /\ loopState' = LoopAfter(e)
          /\ deliveries' = IF e.own /\ e.kind = "toolCompleted"
                           THEN [deliveries EXCEPT ![e.id] = @ + 1]
                           ELSE deliveries
          /\ errDelivered' = (errDelivered \/ (e.own /\ e.kind = "error"))
          /\ idleDelivered' = (idleDelivered \/ (e.own /\ e.kind = "idle"))
          /\ otherDelivered' = (otherDelivered \/ ~e.own)
    /\ UNCHANGED <<watchVars, jiraVars, flowVars, mcpVars, storeVars, routerVars, findVars, streamState, promptFailed,
                   sessKind, textParts, sessPc, subscribed,
                   promptSent, aiDone, calls, emitted, posted, missed>>

\* for await (const event of events.stream) finds the stream done (the
\* connection to the server was closed): the loop is left without a break
\* and eventProcessor resolves (lines 112-173 / 250-339)
StreamEnd ==
    /\ loopState = "running"
    /\ stream = <<>>
    /\ streamState = "open"
    /\ streamState' = "closed"
    /\ loopState' = "ended"
    /\ UNCHANGED <<watchVars, jiraVars, flowVars, mcpVars, storeVars, routerVars, findVars, idleDelivered, otherDelivered, promptFailed,
                   sessKind, textParts, sessPc, subscribed, promptSent, stream,
                   responseText, commentCount, processedToolCalls, error,
                   aiDone, calls, emitted, posted, deliveries, errDelivered,
                   missed>>

\* for await (const event of events.stream) throws (the connection to the
\* server broke): eventProcessor rejects
StreamFail ==
    /\ loopState = "running"
    /\ stream = <<>>
    /\ streamState = "open"
    /\ streamState' = "failed"
    /\ loopState' = "ended"
    /\ UNCHANGED <<watchVars, jiraVars, flowVars, mcpVars, storeVars, routerVars, findVars, idleDelivered, otherDelivered, promptFailed,
                   sessKind, textParts, sessPc, subscribed, promptSent, stream,
                   responseText, commentCount, processedToolCalls, error,
                   aiDone, calls, emitted, posted, deliveries, errDelivered,
                   missed>>

\* the OpenCode server publishes event e: it reaches the stream of a
\* subscriber while the stream is open, and nobody before the subscription
Publish(e) ==
    /\ emitted < MaxEvents
    /\ emitted' = emitted + 1
    /\ IF subscribed
       THEN /\ streamState = "open"
            /\ Len(stream) < MaxStream
            /\ stream' = Append(stream, e)
            /\ UNCHANGED missed
       ELSE /\ missed' = (missed \/ e.own)
            /\ UNCHANGED stream

\* the AI session, once prompted, completes a text part: the server
\* publishes message.part.updated with part.time.end set; the id of the
\* event is the number of the part
AiText ==
    /\ promptSent /\ ~aiDone
    /\ textParts' = textParts + 1
    /\ Publish(Event("text", TRUE, textParts + 1))
    /\ UNCHANGED <<watchVars, jiraVars, flowVars, mcpVars, storeVars, routerVars, findVars, idleDelivered, otherDelivered, streamState, promptFailed,
                   sessKind, sessPc, subscribed,
                   loopState, promptSent, responseText, commentCount,
                   processedToolCalls, error, aiDone, calls, posted,
                   deliveries, errDelivered>>

\* the AI session invokes post_review_comment with a new call id; the
\* CallToolRequestSchema handler parses the arguments and calls
\* postCommentToGitLab, which creates one discussion (lines 452-485); the tool
\* part completes
AiToolCallCompleted ==
    /\ promptSent /\ ~aiDone
    /\ calls < MaxCalls
    /\ calls' = calls + 1
    /\ posted' = [posted EXCEPT ![calls + 1] = @ + 1]
    /\ Publish(Event("toolCompleted", TRUE, calls + 1))
    /\ UNCHANGED <<watchVars, jiraVars, flowVars, mcpVars, storeVars, routerVars, findVars, idleDelivered, otherDelivered, streamState, promptFailed,
                   sessKind, textParts, sessPc, subscribed,
                   loopState, promptSent, responseText, commentCount,
                   processedToolCalls, error, aiDone, deliveries,
                   errDelivered>>

\* the AI session invokes post_review_comment and the handler throws an
\* McpError (invalid arguments, or the GitLab call failed, lines 521-546):
\* nothing is posted, the tool part ends in state error
AiToolCallErrored ==
    /\ promptSent /\ ~aiDone
    /\ calls < MaxCalls
    /\ calls' = calls + 1
    /\ Publish(Event("toolError", TRUE, calls + 1))
    /\ UNCHANGED <<watchVars, jiraVars, flowVars, mcpVars, storeVars, routerVars, findVars, idleDelivered, otherDelivered, streamState, promptFailed,
                   sessKind, textParts, sessPc, subscribed,
                   loopState, promptSent, responseText, commentCount,
                   processedToolCalls, error, aiDone, posted, deliveries,
                   errDelivered>>

\* the server publishes the update of a completed tool part once more
Redeliver ==
    /\ \E id \in 1..calls :
          /\ posted[id] > 0
          /\ Publish(Event("toolCompleted", TRUE, id))
    /\ UNCHANGED <<watchVars, jiraVars, flowVars, mcpVars, storeVars, routerVars, findVars, idleDelivered, otherDelivered, streamState, promptFailed,
                   sessKind, textParts, sessPc, subscribed,
                   loopState, promptSent, responseText, commentCount,
                   processedToolCalls, error, aiDone, calls, posted,
                   deliveries, errDelivered>>

\* the server publishes the update of a completed text part once more:
\* the event has the same part, sessionID and time.end as the first one
RedeliverText ==
    /\ \E id \in 1..textParts : Publish(Event("text", TRUE, id))
    /\ UNCHANGED <<watchVars, jiraVars, flowVars, mcpVars, storeVars, routerVars, findVars, idleDelivered, otherDelivered, streamState, promptFailed,
                   sessKind, textParts, sessPc, subscribed,
                   loopState, promptSent, responseText, commentCount,
                   processedToolCalls, error, aiDone, calls, posted,
                   deliveries, errDelivered>>

\* the AI session ends: session.idle or session.error is published
AiTerminal ==
    /\ promptSent /\ ~aiDone
    /\ aiDone' = TRUE
    /\ \E kind \in {"idle", "error"} : Publish(Event(kind, TRUE, 0))
    /\ UNCHANGED <<watchVars, jiraVars, flowVars, mcpVars, storeVars, routerVars, findVars, idleDelivered, otherDelivered, streamState, promptFailed,
                   sessKind, textParts, sessPc, subscribed,
                   loopState, promptSent, responseText, commentCount,
                   processedToolCalls, error, calls, posted, deliveries,
                   errDelivered>>

\* another session of the same server publishes an event
OtherSessionEvent ==
    /\ \E kind \in {"text", "toolCompleted", "idle", "error"} :
          Publish(Event(kind, FALSE, 1))
    /\ UNCHANGED <<watchVars, jiraVars, flowVars, mcpVars, storeVars, routerVars, findVars, idleDelivered, otherDelivered, streamState, promptFailed,
                   sessKind, textParts, sessPc, subscribed,
                   loopState, promptSent, responseText, commentCount,
                   processedToolCalls, error, aiDone, calls, posted,
                   deliveries, errDelivered>>

InitSession ==
    /\ sessKind \in {"review", "prompt"}
    /\ sessPc = "create"
    /\ subscribed = FALSE
    /\ loopState = "notStarted"
    /\ promptSent = FALSE
    /\ stream = <<>>
    /\ responseText = <<>>
    /\ commentCount = 0
    /\ processedToolCalls = {}
    /\ error = FALSE
    /\ aiDone = FALSE
    /\ calls = 0
    /\ emitted = 0
    /\ posted = [id \in CallIds |-> 0]
    /\ deliveries = [id \in CallIds |-> 0]
    /\ errDelivered = FALSE
    /\ missed = FALSE
    /\ idleDelivered = FALSE
    /\ streamState = "open"
    /\ promptFailed = FALSE
    /\ textParts = 0
    /\ otherDelivered = FALSE

NextSession ==
    \/ CreateSession
    \/ SetupThrow
    \/ Subscribe
    \/ StartEventProcessor
    \/ SendPrompt
    \/ PromptReturn
    \/ PromptThrow
    \/ AwaitEventProcessor
    \/ ConsumeEvent
    \/ StreamEnd
    \/ StreamFail
    \/ AiText
    \/ AiToolCallCompleted
    \/ AiToolCallErrored
    \/ Redeliver
    \/ RedeliverText
    \/ AiTerminal
    \/ OtherSessionEvent

\* ======================================================================
\* One workflow run: reviewMergeRequest (src/lib/opencode/review.ts),
\* answerQuestion (src/lib/opencode/question.ts) and processMention
\* (src/lib/jira/jira-watcher.ts) from its call to the value or the error
\* it ends with
\* ======================================================================

WorkflowKinds == {"review", "question", "jira"}
GitLabKinds == {"review", "question"}

\* the comments a workflow can post, by what they tell the reader
CommentClasses == {"ack", "result", "error", "info", "toplevel"}
NoComments == [c \in CommentClasses |-> 0]

\* the workflow has ended: its promise is resolved or rejected
Ended == wfPc \in {"returned", "thrown"}

\* one more comment of class c
PostComment(c) == wfComments' = [wfComments EXCEPT ![c] = @ + 1]

\* the first failure of the run is of kind cause
Cause(cause) == wfCause' = IF wfCause = "none" THEN cause ELSE wfCause

\* an await rejects before the try block: the function rejects at once
ThrowOutside(cause) ==
    /\ wfPc' = "thrown"
    /\ wfThrowing' = TRUE
    /\ Cause(cause)

\* an await rejects inside the try block: review.ts has only a finally,
\* question.ts has a catch before it
ThrowInTry(cause) ==
    /\ wfPc' = IF wfKind = "question" THEN "catch" ELSE "finally"
    /\ wfThrowing' = TRUE
    /\ Cause(cause)

\* review.ts 19-25, question.ts 27-33
GetMergeRequestDiscussionsReturn ==
    /\ wfKind \in GitLabKinds
    /\ wfPc = "getMergeRequestDiscussions"
    /\ wfPc' = "findDiscussionFromTodo"
    /\ UNCHANGED <<wfKind, addCommentFailed, initialDiscussion, linked, workspace, aiSessions,
                   wfComments, wfCause, wfThrowing>>
    /\ UNCHANGED <<watchVars, jiraVars, sessVars, mcpVars, storeVars, routerVars, findVars>>

GetMergeRequestDiscussionsThrow ==
    /\ wfKind \in GitLabKinds
    /\ wfPc = "getMergeRequestDiscussions"
    /\ ThrowOutside("api")
    /\ UNCHANGED <<wfKind, addCommentFailed, initialDiscussion, linked, workspace, aiSessions,
                   wfComments>>
    /\ UNCHANGED <<watchVars, jiraVars, sessVars, mcpVars, storeVars, routerVars, findVars>>

\* review.ts 27-31: the result may be undefined and the review goes on;
\* question.ts 36-47: undefined makes answerQuestion throw
FindDiscussionFromTodo ==
    /\ wfKind \in GitLabKinds
    /\ wfPc = "findDiscussionFromTodo"
    /\ \E found \in BOOLEAN :
        /\ initialDiscussion' = IF found THEN "found" ELSE "missing"
        /\ IF found
           THEN /\ wfPc' = "replyAck"
                /\ UNCHANGED <<wfCause, wfThrowing>>
           ELSE IF wfKind = "review"
           THEN /\ wfPc' = "getProject"
                /\ UNCHANGED <<wfCause, wfThrowing>>
           ELSE ThrowOutside("lookup")
    /\ UNCHANGED <<wfKind, addCommentFailed, linked, workspace, aiSessions, wfComments>>
    /\ UNCHANGED <<watchVars, jiraVars, sessVars, mcpVars, storeVars, routerVars, findVars>>

\* review.ts 33-40 (inside if (initialDiscussion)), question.ts 50-57
ReplyAckReturn ==
    /\ wfKind \in GitLabKinds
    /\ wfPc = "replyAck"
    /\ PostComment("ack")
    /\ wfPc' = "getProject"
    /\ UNCHANGED <<wfKind, addCommentFailed, initialDiscussion, linked, workspace, aiSessions,
                   wfCause, wfThrowing>>
    /\ UNCHANGED <<watchVars, jiraVars, sessVars, mcpVars, storeVars, routerVars, findVars>>

ReplyAckThrow ==
    /\ wfKind \in GitLabKinds
    /\ wfPc = "replyAck"
    /\ ThrowOutside("api")
    /\ UNCHANGED <<wfKind, addCommentFailed, initialDiscussion, linked, workspace, aiSessions,
                   wfComments>>
    /\ UNCHANGED <<watchVars, jiraVars, sessVars, mcpVars, storeVars, routerVars, findVars>>

\* review.ts 43-47, question.ts 60-64
GetProjectReturn ==
    /\ wfKind \in GitLabKinds
    /\ wfPc = "getProject"
    /\ wfPc' = "cloneToTemp"
    /\ UNCHANGED <<wfKind, addCommentFailed, initialDiscussion, linked, workspace, aiSessions,
                   wfComments, wfCause, wfThrowing>>
    /\ UNCHANGED <<watchVars, jiraVars, sessVars, mcpVars, storeVars, routerVars, findVars>>

GetProjectThrow ==
    /\ wfKind \in GitLabKinds
    /\ wfPc = "getProject"
    /\ ThrowOutside("api")
    /\ UNCHANGED <<wfKind, addCommentFailed, initialDiscussion, linked, workspace, aiSessions,
                   wfComments>>
    /\ UNCHANGED <<watchVars, jiraVars, sessVars, mcpVars, storeVars, routerVars, findVars>>

\* review.ts 50-53, question.ts 67-70 calling cloneToTemp: the temporary
\* directory is made and the repository cloned into it
CloneToTempReturn ==
    /\ wfKind \in GitLabKinds
    /\ wfPc = "cloneToTemp"
    /\ workspace' = "provisioned"
    /\ wfPc' = "session"
    /\ UNCHANGED <<wfKind, addCommentFailed, initialDiscussion, linked, aiSessions, wfComments,
                   wfCause, wfThrowing>>
    /\ UNCHANGED <<watchVars, jiraVars, sessVars, mcpVars, storeVars, routerVars, findVars>>

\* git clone fails: the catch block of cloneToTemp removes the directory it
\* made and throws; the call is before the try block of the workflow
CloneToTempThrow ==
    /\ wfKind \in GitLabKinds
    /\ wfPc = "cloneToTemp"
    /\ workspace' = "released"
    /\ ThrowOutside("clone")
    /\ UNCHANGED <<wfKind, addCommentFailed, initialDiscussion, linked, aiSessions, wfComments>>
    /\ UNCHANGED <<watchVars, jiraVars, sessVars, mcpVars, storeVars, routerVars, findVars>>

\* review.ts 57-169 createClient and createReviewSession, question.ts
\* 74-130 createClient, getCurrentUser and promptAndWaitForResponse
SessionReturn ==
    /\ wfKind \in GitLabKinds
    /\ wfPc = "session"
    /\ aiSessions' = aiSessions + 1
    /\ wfPc' = IF initialDiscussion = "found" THEN "replyResult" ELSE "finally"
    /\ UNCHANGED <<wfKind, addCommentFailed, initialDiscussion, linked, workspace, wfComments,
                   wfCause, wfThrowing>>
    /\ UNCHANGED <<watchVars, jiraVars, sessVars, mcpVars, storeVars, routerVars, findVars>>

\* the session ends with a terminal error, which the session function throws
SessionThrow ==
    /\ wfKind \in GitLabKinds
    /\ wfPc = "session"
    /\ aiSessions' = aiSessions + 1
    /\ ThrowInTry("session")
    /\ UNCHANGED <<wfKind, addCommentFailed, initialDiscussion, linked, workspace, wfComments>>
    /\ UNCHANGED <<watchVars, jiraVars, sessVars, mcpVars, storeVars, routerVars, findVars>>

\* question.ts 77: getCurrentUser inside the try block
GetCurrentUserThrow ==
    /\ wfKind = "question"
    /\ wfPc = "session"
    /\ ThrowInTry("api")
    /\ UNCHANGED <<wfKind, addCommentFailed, initialDiscussion, linked, workspace, aiSessions,
                   wfComments>>
    /\ UNCHANGED <<watchVars, jiraVars, sessVars, mcpVars, storeVars, routerVars, findVars>>

\* review.ts 171-179 "Review completed!", question.ts 133-140 the answer
ReplyResultReturn ==
    /\ wfKind \in GitLabKinds
    /\ wfPc = "replyResult"
    /\ PostComment("result")
    /\ wfPc' = "finally"
    /\ UNCHANGED <<wfKind, addCommentFailed, initialDiscussion, linked, workspace, aiSessions,
                   wfCause, wfThrowing>>
    /\ UNCHANGED <<watchVars, jiraVars, sessVars, mcpVars, storeVars, routerVars, findVars>>

ReplyResultThrow ==
    /\ wfKind \in GitLabKinds
    /\ wfPc = "replyResult"
    /\ ThrowInTry("api")
    /\ UNCHANGED <<wfKind, addCommentFailed, initialDiscussion, linked, workspace, aiSessions,
                   wfComments>>
    /\ UNCHANGED <<watchVars, jiraVars, sessVars, mcpVars, storeVars, routerVars, findVars>>

\* question.ts 148-169: one error reply, then throw error; when the reply
\* itself rejects, that rejection leaves the catch block instead
QuestionCatch ==
    /\ wfKind = "question"
    /\ wfPc = "catch"
    /\ \/ PostComment("error")
       \/ UNCHANGED wfComments
    /\ wfPc' = "finally"
    /\ UNCHANGED <<wfKind, addCommentFailed, initialDiscussion, linked, workspace, aiSessions,
                   wfCause, wfThrowing>>
    /\ UNCHANGED <<watchVars, jiraVars, sessVars, mcpVars, storeVars, routerVars, findVars>>

\* review.ts 182-200, question.ts 170-188: cloneResult.cleanup() removes
\* the directory; then the value or the error leaves the function
Finally ==
    /\ wfKind \in GitLabKinds
    /\ wfPc = "finally"
    /\ workspace' = "released"
    /\ wfPc' = IF wfThrowing THEN "thrown" ELSE "returned"
    /\ UNCHANGED <<wfKind, addCommentFailed, initialDiscussion, linked, aiSessions, wfComments,
                   wfCause, wfThrowing>>
    /\ UNCHANGED <<watchVars, jiraVars, sessVars, mcpVars, storeVars, routerVars, findVars>>

\* jira-watcher.ts 133 calling determineMessageType (part_012 74-139):
\* createClient(process.cwd()) and promptAndWaitForResponse run one AI
\* session to classify the comment; the call is before the try block
DetermineMessageTypeReturn ==
    /\ wfKind = "jira"
    /\ wfPc = "determineMessageType"
    /\ aiSessions' = aiSessions + 1
    /\ wfPc' = "cloneRepoForJiraIssue"
    /\ UNCHANGED <<wfKind, addCommentFailed, initialDiscussion, linked, workspace, wfComments,
                   wfCause, wfThrowing>>
    /\ UNCHANGED <<watchVars, jiraVars, sessVars, mcpVars, storeVars, routerVars, findVars>>

DetermineMessageTypeThrow ==
    /\ wfKind = "jira"
    /\ wfPc = "determineMessageType"
    /\ aiSessions' = aiSessions + 1
    /\ ThrowOutside("session")
    /\ UNCHANGED <<wfKind, addCommentFailed, initialDiscussion, linked, workspace, wfComments>>
    /\ UNCHANGED <<watchVars, jiraVars, sessVars, mcpVars, storeVars, routerVars, findVars>>

\* jira-actions.ts 63-207, success: the project has a GitLab link, getProject
\* and cloneToTempShallow resolve
CloneRepoForJiraIssueReturn ==
    /\ wfKind = "jira"
    /\ wfPc = "cloneRepoForJiraIssue"
    /\ linked
    /\ workspace' = "provisioned"
    /\ wfPc' = "jiraWorkflow"
    /\ UNCHANGED <<wfKind, addCommentFailed, initialDiscussion, linked, aiSessions, wfComments,
                   wfCause, wfThrowing>>
    /\ UNCHANGED <<watchVars, jiraVars, sessVars, mcpVars, storeVars, routerVars, findVars>>

\* jira-actions.ts 94-100: getGitLabProjectUrl gives null, the function
\* returns null before any GitLab call; 186-206: getProject rejects, the
\* catch block returns null
CloneRepoForJiraIssueNull ==
    /\ wfKind = "jira"
    /\ wfPc = "cloneRepoForJiraIssue"
    /\ IF linked THEN Cause("api") ELSE UNCHANGED wfCause
    /\ wfPc' = "infoComment"
    /\ UNCHANGED <<wfKind, addCommentFailed, initialDiscussion, linked, workspace, aiSessions,
                   wfComments, wfThrowing>>
    /\ UNCHANGED <<watchVars, jiraVars, sessVars, mcpVars, storeVars, routerVars, findVars>>

\* git.ts 157-275 cloneToTempShallow fails: mkdir -p has made the directory,
\* the catch block removes it only if Bun.file(tempDir).exists() answers
\* true; BunFile.exists() is specified for regular files, so for a directory
\* both answers are outcomes of the runtime. cloneRepoForJiraIssue catches
\* the error and returns null
CloneToTempShallowThrow ==
    /\ wfKind = "jira"
    /\ wfPc = "cloneRepoForJiraIssue"
    /\ linked
    /\ \E exists \in BOOLEAN :
        workspace' = IF exists THEN "released" ELSE "provisioned"
    /\ Cause("clone")
    /\ wfPc' = "infoComment"
    /\ UNCHANGED <<wfKind, addCommentFailed, initialDiscussion, linked, aiSessions, wfComments,
                   wfThrowing>>
    /\ UNCHANGED <<watchVars, jiraVars, sessVars, mcpVars, storeVars, routerVars, findVars>>

\* jira-watcher.ts 150-157, 208-215, 251-264: if (!cloneResult) one comment
\* that tells the project is not linked or the clone failed, then return
InfoCommentReturn ==
    /\ wfKind = "jira"
    /\ wfPc = "infoComment"
    /\ PostComment("info")
    /\ wfPc' = "returned"
    /\ UNCHANGED <<wfKind, addCommentFailed, initialDiscussion, linked, workspace, aiSessions,
                   wfCause, wfThrowing>>
    /\ UNCHANGED <<watchVars, jiraVars, sessVars, mcpVars, storeVars, routerVars, findVars>>

InfoCommentThrow ==
    /\ wfKind = "jira"
    /\ wfPc = "infoComment"
    /\ Cause("api")
    /\ addCommentFailed' = TRUE
    /\ wfPc' = "processMentionCatch"
    /\ UNCHANGED <<wfKind, initialDiscussion, linked, workspace, aiSessions,
                   wfComments, wfThrowing>>
    /\ UNCHANGED <<watchVars, jiraVars, sessVars, mcpVars, storeVars, routerVars, findVars>>

\* jira-watcher.ts 163-172 analyzeBug, 227-236 createMRForBugFix, 277-297
\* promptAndWaitForResponse: the AI session of the workflow
JiraWorkflowReturn ==
    /\ wfKind = "jira"
    /\ wfPc = "jiraWorkflow"
    /\ aiSessions' = aiSessions + 1
    /\ wfPc' = "addComment"
    /\ UNCHANGED <<wfKind, addCommentFailed, initialDiscussion, linked, workspace, wfComments,
                   wfCause, wfThrowing>>
    /\ UNCHANGED <<watchVars, jiraVars, sessVars, mcpVars, storeVars, routerVars, findVars>>

JiraWorkflowThrow ==
    /\ wfKind = "jira"
    /\ wfPc = "jiraWorkflow"
    /\ aiSessions' = aiSessions + 1
    /\ Cause("session")
    /\ wfThrowing' = TRUE
    /\ wfPc' = "cleanup"
    /\ UNCHANGED <<wfKind, addCommentFailed, initialDiscussion, linked, workspace, wfComments>>
    /\ UNCHANGED <<watchVars, jiraVars, sessVars, mcpVars, storeVars, routerVars, findVars>>

\* jira-watcher.ts 174-177: the result is posted as a comment
AddCommentReturn ==
    /\ wfKind = "jira"
    /\ wfPc = "addComment"
    /\ PostComment("result")
    /\ wfPc' = "cleanup"
    /\ UNCHANGED <<wfKind, addCommentFailed, initialDiscussion, linked, workspace, aiSessions,
                   wfCause, wfThrowing>>
    /\ UNCHANGED <<watchVars, jiraVars, sessVars, mcpVars, storeVars, routerVars, findVars>>

AddCommentThrow ==
    /\ wfKind = "jira"
    /\ wfPc = "addComment"
    /\ Cause("api")
    /\ addCommentFailed' = TRUE
    /\ wfThrowing' = TRUE
    /\ wfPc' = "cleanup"
    /\ UNCHANGED <<wfKind, initialDiscussion, linked, workspace, aiSessions,
                   wfComments>>
    /\ UNCHANGED <<watchVars, jiraVars, sessVars, mcpVars, storeVars, routerVars, findVars>>

\* jira-watcher.ts 178-185 finally { await cloneResult.cleanup() } with the
\* cleanup of git.ts 228-239: rm -rf only if Bun.file(tempDir).exists()
Cleanup ==
    /\ wfKind = "jira"
    /\ wfPc = "cleanup"
    /\ \E exists \in BOOLEAN :
        workspace' = IF exists THEN "released" ELSE workspace
    /\ wfPc' = IF wfThrowing THEN "processMentionCatch" ELSE "returned"
    /\ UNCHANGED <<wfKind, addCommentFailed, initialDiscussion, linked, aiSessions, wfComments,
                   wfCause, wfThrowing>>
    /\ UNCHANGED <<watchVars, jiraVars, sessVars, mcpVars, storeVars, routerVars, findVars>>

\* jira-watcher.ts 321-340: the catch block posts one error comment inside
\* its own try/catch, so processMention returns normally either way
ProcessMentionCatch ==
    /\ wfKind = "jira"
    /\ wfPc = "processMentionCatch"
    /\ \/ PostComment("error") /\ UNCHANGED addCommentFailed
       \/ UNCHANGED wfComments /\ addCommentFailed' = TRUE
    /\ wfThrowing' = FALSE
    /\ wfPc' = "returned"
    /\ UNCHANGED <<wfKind, initialDiscussion, linked, workspace, aiSessions,
                   wfCause>>
    /\ UNCHANGED <<watchVars, jiraVars, sessVars, mcpVars, storeVars, routerVars, findVars>>

InitWorkflow ==
    /\ wfKind \in WorkflowKinds
    /\ linked \in BOOLEAN
    /\ wfPc = IF wfKind = "jira" THEN "determineMessageType"
                                 ELSE "getMergeRequestDiscussions"
    /\ initialDiscussion = "unknown"
    /\ workspace = "none"
    /\ aiSessions = 0
    /\ wfComments = NoComments
    /\ wfCause = "none"
    /\ wfThrowing = FALSE
    /\ addCommentFailed = FALSE

NextWorkflow ==
    \/ GetMergeRequestDiscussionsReturn
    \/ GetMergeRequestDiscussionsThrow
    \/ FindDiscussionFromTodo
    \/ ReplyAckReturn
    \/ ReplyAckThrow
    \/ GetProjectReturn
    \/ GetProjectThrow
    \/ CloneToTempReturn
    \/ CloneToTempThrow
    \/ SessionReturn
    \/ SessionThrow
    \/ GetCurrentUserThrow
    \/ ReplyResultReturn
    \/ ReplyResultThrow
    \/ QuestionCatch
    \/ Finally
    \/ DetermineMessageTypeReturn
    \/ DetermineMessageTypeThrow
    \/ CloneRepoForJiraIssueReturn
    \/ CloneRepoForJiraIssueNull
    \/ CloneToTempShallowThrow
    \/ InfoCommentReturn
    \/ InfoCommentThrow
    \/ JiraWorkflowReturn
    \/ JiraWorkflowThrow
    \/ AddCommentReturn
    \/ AddCommentThrow
    \/ Cleanup
    \/ ProcessMentionCatch

\* ======================================================================
\* The MCP server process (src/lib/gitlab/mcp-review-server.ts): the
\* CallToolRequestSchema handler of post_review_comment, postCommentToGitLab
\* and getMRVersion with its mrVersionCache, for the tool calls about one
\* merge request
\* ======================================================================

ToolCalls == 1..MaxCalls
Versions == 1..MaxVersions

\* a string field the caller left out (undefined before line 457, null
\* after it), and a number field the caller left out
Absent == "absent"
NoNumber == -1

\* the arguments of one post_review_comment call, as far as
\* reviewCommentSchema and postCommentToGitLab look at them
Findings ==
    [file : {Absent, "", "src/a.ts"},
     line : {NoNumber, 7},
     severity : {"warning", "nitpick"},
     comment : {"", "text"},
     suggestedCode : {Absent, "", "code"},
     suggestionLinesAbove : {NoNumber, 0, 1, 2, 101},
     suggestionLinesBelow : {NoNumber, 1}]

\* the few arguments the concurrent handler is run with: a comment the
\* schema rejects, a general comment, a positioned one, and a positioned
\* one with a suggestion
CallArguments ==
    {f \in Findings :
        /\ f.severity = "warning"
        /\ f.suggestionLinesAbove = NoNumber
        /\ f.suggestionLinesBelow = NoNumber
        /\ f.suggestedCode \in {Absent, "code"}
        /\ f.file # ""
        /\ (f.file = Absent) = (f.line = NoNumber)
        /\ f.comment = "" => f.file = Absent /\ f.suggestedCode = Absent
        /\ f.suggestedCode # Absent => f.file # Absent}

\* reviewCommentSchema (lines 38-50): severity is one of the enum, comment
\* has at least one character, the suggestion line counts are in 0..100
SchemaAccepts(f) ==
    /\ f.severity \in {"critical", "warning", "suggestion", "praise"}
    /\ f.comment # ""
    /\ f.suggestionLinesAbove # NoNumber => f.suggestionLinesAbove \in 0..100
    /\ f.suggestionLinesBelow # NoNumber => f.suggestionLinesBelow \in 0..100

\* the test of line 148 looking at the file only
HasPositionFileOnly(f) == f.file \notin {Absent, ""}

\* params.file && params.line !== null (lines 137 and 148): an empty file
\* name is falsy
HasPosition(f) == f.file \notin {Absent, ""} /\ f.line # NoNumber

\* a ?? 0
OrZero(a) == IF a = NoNumber THEN 0 ELSE a

\* a body without a suggestion block
NoSuggestion == [present |-> FALSE, header |-> "", code |-> Absent]

\* the header with the two line counts exchanged
suggestionHeaderSwapped(f) ==
    "suggestion:-" \o ToString(OrZero(f.suggestionLinesBelow))
                   \o "+" \o ToString(OrZero(f.suggestionLinesAbove))

\* lines 138-142: the text after the opening fence,
\* suggestion:-${linesAbove}+${linesBelow}
suggestionHeader(f) ==
    "suggestion:-" \o ToString(OrZero(f.suggestionLinesAbove))
                   \o "+" \o ToString(OrZero(f.suggestionLinesBelow))

\* line 143: the fenced block: the header line, then params.suggestedCode
\* as it is, then the closing fence
Suggestion(f) ==
    [present |-> TRUE, header |-> suggestionHeader(f), code |-> f.suggestedCode]

\* the older revision src/lib/mcp-review-server.ts 166-174, whose test
\* params.suggestedCode && ... also drops the empty string
SuggestionBlockTruthy(f) ==
    IF f.suggestedCode \notin {Absent, ""} /\ HasPosition(f)
    THEN Suggestion(f)
    ELSE NoSuggestion

\* lines 136-144: the suggestion block appended to the body, or none
SuggestionBlock(f) ==
    IF f.suggestedCode # Absent /\ HasPosition(f)
    THEN Suggestion(f)
    ELSE NoSuggestion

\* lines 120-144: the body of the comment: the severity line, the file name
\* for a file-level comment, the text, the suggestion block
CommentBody(f) ==
    [severity |-> f.severity,
     inFile |-> IF f.file \notin {Absent, ""} /\ f.line = NoNumber
                THEN f.file ELSE Absent,
     comment |-> f.comment,
     suggestion |-> SuggestionBlock(f)]

\* lines 521-546 with every error reported as an internal one
ErrorResponseNoZod(err) == "InternalError"

\* lines 521-546: the McpError the handler answers with: InvalidParams for
\* a ZodError, InternalError for everything else
ErrorResponse(err) ==
    IF err = "ZodError" THEN "InvalidParams" ELSE "InternalError"

\* no arguments, no discussion
NoArguments ==
    [file |-> Absent, line |-> NoNumber, severity |-> Absent,
     comment |-> Absent, suggestedCode |-> Absent,
     suggestionLinesAbove |-> NoNumber, suggestionLinesBelow |-> NoNumber]
NoPosition ==
    [positioned |-> FALSE, base_sha |-> 0, start_sha |-> 0, head_sha |-> 0,
     new_path |-> Absent, new_line |-> NoNumber]
NoDiscussion ==
    [posted |-> FALSE, body |-> CommentBody(NoArguments),
     position |-> NoPosition]

\* lines 146-161: const position: DiffPosition with the three commits of
\* version v (a version number stands for its base, start and head commit),
\* the file as old_path and new_path and the line as new_line; lines
\* 185-197: no position for a general or file-level comment
DiffPosition(f, v) ==
    IF HasPosition(f)
    THEN [positioned |-> TRUE, base_sha |-> v, start_sha |-> v, head_sha |-> v,
          new_path |-> f.file, new_line |-> f.line]
    ELSE NoPosition

NoCall == [pc |-> "notCalled", args |-> NoArguments, version |-> 0,
           response |-> "none", discussion |-> NoDiscussion]

\* the tool calls the AI session has made so far
Called == {i \in ToolCalls : toolCalls[i].pc # "notCalled"}

\* the AI session calls post_review_comment; the handler (lines 452-485)
\* parses the arguments, postCommentToGitLab builds the body and
\* getMRVersion (lines 70-76) looks into the cache, all before the first
\* await
CallTool ==
    /\ \E i \in ToolCalls, args \in CallArguments :
        /\ toolCalls[i].pc = "notCalled"
        /\ \A j \in ToolCalls : j < i => toolCalls[j].pc # "notCalled"
        /\ toolCalls' = [toolCalls EXCEPT ![i] =
              IF ~SchemaAccepts(args)
              THEN [NoCall EXCEPT !.pc = "answered", !.args = args,
                                  !.response = ErrorResponse("ZodError")]
              ELSE IF HasPosition(args) /\ mrVersionCache = 0
              THEN [NoCall EXCEPT !.pc = "getMergeRequestVersions",
                                  !.args = args]
              ELSE [NoCall EXCEPT !.pc = "createMergeRequestDiscussion",
                                  !.args = args,
                                  !.version = IF HasPosition(args)
                                              THEN mrVersionCache ELSE 0]]
    /\ UNCHANGED <<mrVersionCache, upstream, finding, body, answer, passVersion>>
    /\ UNCHANGED <<watchVars, jiraVars, sessVars, flowVars, storeVars, routerVars, findVars>>

\* getMRVersion after its await (lines 80-100): the latest version GitLab
\* has now is cached and used
GetMergeRequestVersionsReturn ==
    /\ \E i \in ToolCalls :
        /\ toolCalls[i].pc = "getMergeRequestVersions"
        /\ mrVersionCache' = upstream
        /\ toolCalls' = [toolCalls EXCEPT
              ![i].pc = "createMergeRequestDiscussion",
              ![i].version = upstream]
    /\ UNCHANGED <<upstream, finding, body, answer, passVersion>>
    /\ UNCHANGED <<watchVars, jiraVars, sessVars, flowVars, storeVars, routerVars, findVars>>

\* the request rejects: the catch block of postCommentToGitLab (lines
\* 213-228) throws an McpError, which the handler passes on
GetMergeRequestVersionsThrow ==
    /\ \E i \in ToolCalls :
        /\ toolCalls[i].pc = "getMergeRequestVersions"
        /\ toolCalls' = [toolCalls EXCEPT
              ![i].pc = "answered",
              ![i].response = ErrorResponse("McpError")]
    /\ UNCHANGED <<mrVersionCache, upstream, finding, body, answer, passVersion>>
    /\ UNCHANGED <<watchVars, jiraVars, sessVars, flowVars, storeVars, routerVars, findVars>>

\* lines 148-211: the discussion is created, with the position built from
\* the version for a comment on a line; the handler answers with success
CreateMergeRequestDiscussionReturn ==
    /\ \E i \in ToolCalls :
        /\ toolCalls[i].pc = "createMergeRequestDiscussion"
        /\ toolCalls' = [toolCalls EXCEPT
              ![i].pc = "answered",
              ![i].response = "success",
              ![i].discussion =
                  [posted |-> TRUE,
                   body |-> CommentBody(toolCalls[i].args),
                   position |-> DiffPosition(toolCalls[i].args,
                                             toolCalls[i].version)]]
    /\ UNCHANGED <<mrVersionCache, upstream, finding, body, answer, passVersion>>
    /\ UNCHANGED <<watchVars, jiraVars, sessVars, flowVars, storeVars, routerVars, findVars>>

CreateMergeRequestDiscussionThrow ==
    /\ \E i \in ToolCalls :
        /\ toolCalls[i].pc = "createMergeRequestDiscussion"
        /\ toolCalls' = [toolCalls EXCEPT
              ![i].pc = "answered",
              ![i].response = ErrorResponse("McpError")]
    /\ UNCHANGED <<mrVersionCache, upstream, finding, body, answer, passVersion>>
    /\ UNCHANGED <<watchVars, jiraVars, sessVars, flowVars, storeVars, routerVars, findVars>>

\* somebody pushes to the merge request: GitLab has a new latest version
NewVersion ==
    /\ upstream < MaxVersions
    /\ upstream' = upstream + 1
    /\ UNCHANGED <<mrVersionCache, toolCalls, finding, body, answer, passVersion>>
    /\ UNCHANGED <<watchVars, jiraVars, sessVars, flowVars, storeVars, routerVars, findVars>>

InitMcp ==
    /\ mrVersionCache = 0
    /\ upstream = 1
    /\ toolCalls = [i \in ToolCalls |-> NoCall]
    /\ passVersion = upstream

NextMcp ==
    \/ CallTool
    \/ GetMergeRequestVersionsReturn
    \/ GetMergeRequestVersionsThrow
    \/ CreateMergeRequestDiscussionReturn
    \/ CreateMergeRequestDiscussionThrow
    \/ NewVersion

\* the review pass has ended (every tool call was answered) and a later
\* pass of the same merge request begins (review.ts reviewMergeRequest): its
\* session starts with no tool call made.  mrVersionCache is a Map of the
\* MCP server module (line 35) that nothing deletes from: it is kept when the
\* same server process handles the pass (the server is started with the
\* OpenCode server, opencode-helper.ts 38-50), and empty when the pass runs
\* against a process started anew
StartReviewPass ==
    /\ Called # {}
    /\ \A i \in ToolCalls : toolCalls[i].pc \in {"notCalled", "answered"}
    /\ toolCalls' = [i \in ToolCalls |-> NoCall]
    /\ passVersion' = upstream
    /\ \E kept \in BOOLEAN :
          mrVersionCache' = IF kept THEN mrVersionCache ELSE 0
    /\ UNCHANGED <<upstream, finding, body, answer>>
    /\ UNCHANGED <<watchVars, jiraVars, sessVars, flowVars, storeVars, routerVars, findVars>>

NextMcpPasses == NextMcp \/ StartReviewPass

\* postCommentToGitLab applied to one call whose arguments range over all
\* Findings: lines 120-144 build the body
BuildBody ==
    /\ ~body.posted
    /\ answer = "none"
    /\ SchemaAccepts(finding)
    /\ body' = [posted |-> TRUE, body |-> CommentBody(finding),
                position |-> DiffPosition(finding, upstream)]
    /\ answer' = "success"
    /\ UNCHANGED <<mrVersionCache, upstream, toolCalls, finding, passVersion>>
    /\ UNCHANGED <<watchVars, jiraVars, sessVars, flowVars, storeVars, routerVars, findVars>>

\* the handler rejects the arguments (lines 454 and 521-532)
RejectArguments ==
    /\ answer = "none"
    /\ ~SchemaAccepts(finding)
    /\ answer' = ErrorResponse("ZodError")
    /\ UNCHANGED <<mrVersionCache, upstream, toolCalls, finding, body, passVersion>>
    /\ UNCHANGED <<watchVars, jiraVars, sessVars, flowVars, storeVars, routerVars, findVars>>

InitBody ==
    /\ finding \in Findings
    /\ body = NoDiscussion
    /\ answer = "none"

NextBody == BuildBody \/ RejectArguments

\* ======================================================================
\* The durable store of processed Jira comments (src/lib/jira/jira-state.ts)
\* ======================================================================

\* milliseconds of one day, the step of the clock
DayMs == 24 * 60 * 60 * 1000

\* const DEFAULT_MAX_AGE_MS (line 7)
DEFAULT_MAX_AGE_MS == 7 * DayMs

\* the values process.env.JIRA_STATE_MAX_AGE_DAYS may have; "" is unset
EnvValues == {"", "abc", "2", "7days"}

\* parseInt(s, 10): the leading digits, NaN if there are none
parseInt(s) ==
    CASE s = "2" -> [nan |-> FALSE, value |-> 2]
      [] s = "7days" -> [nan |-> FALSE, value |-> 7]
      [] OTHER -> [nan |-> TRUE, value |-> 0]

\* getMaxAgeMs (lines 47-55)
getMaxAgeMs ==
    IF maxAgeEnv # "" /\ ~parseInt(maxAgeEnv).nan
    THEN parseInt(maxAgeEnv).value * DayMs
    ELSE DEFAULT_MAX_AGE_MS

\* isExpired with >= in place of >
isExpiredAtMaxAge(timestamp, maxAgeMs) == now - timestamp >= maxAgeMs

\* isExpired (lines 57-59)
isExpired(timestamp, maxAgeMs) == now - timestamp > maxAgeMs

\* data.processedComments as read by readState (lines 24-36): the ids that
\* have an entry; markProcessed keeps one entry per id, so the array is a
\* function from its ids to their timestamps
Entries(file) == {id \in Comments : file[id] # NoNumber}

\* validEntries (lines 66-68) of the file as it is now
validEntries ==
    {id \in Entries(stateFile) : ~isExpired(stateFile[id], getMaxAgeMs)}

\* the file after writeState({ processedComments: validEntries }) (line 78)
Compacted ==
    [id \in Comments |-> IF id \in validEntries THEN stateFile[id] ELSE NoNumber]

\* nothing was returned
NoReply == [ids |-> {}, id |-> 0, has |-> FALSE]

\* the read of lines 62-82 without the test of line 72: it writes every time
ReadAlwaysWrites(id) ==
    /\ pruned' = Entries(stateFile) \ validEntries
    /\ wrote' = TRUE
    /\ stateFile' = Compacted
    /\ reply' = [ids |-> validEntries, id |-> id, has |-> id \in validEntries]

\* getProcessedComments (lines 62-82), called for itself (id 0) or by
\* isProcessed(id) (lines 84-86): the valid ids are returned, and the file
\* is rewritten with the valid entries if their number differs from the
\* number of entries read
Read(id) ==
    /\ pruned' = Entries(stateFile) \ validEntries
    /\ wrote' = (Cardinality(validEntries) # Cardinality(Entries(stateFile)))
    /\ stateFile' = IF Cardinality(validEntries) # Cardinality(Entries(stateFile))
                    THEN Compacted ELSE stateFile
    /\ reply' = [ids |-> validEntries, id |-> id, has |-> id \in validEntries]

getProcessedComments ==
    /\ Read(0)
    /\ UNCHANGED <<now, maxAgeEnv>>
    /\ UNCHANGED <<watchVars, jiraVars, sessVars, flowVars, mcpVars, routerVars, findVars>>

isProcessed(commentId) ==
    /\ Read(commentId)
    /\ UNCHANGED <<now, maxAgeEnv>>
    /\ UNCHANGED <<watchVars, jiraVars, sessVars, flowVars, mcpVars, routerVars, findVars>>

IsProcessed == \E commentId \in Comments : isProcessed(commentId)

\* markProcessed (lines 88-106): the entry of the id gets the time of the
\* call, a new id gets a new entry; the file is written
markProcessed ==
    /\ \E commentId \in Comments :
          stateFile' = [stateFile EXCEPT ![commentId] = now]
    /\ wrote' = TRUE
    /\ pruned' = {}
    /\ reply' = NoReply
    /\ UNCHANGED <<now, maxAgeEnv>>
    /\ UNCHANGED <<watchVars, jiraVars, sessVars, flowVars, mcpVars, routerVars, findVars>>

\* cleanup() (lines 108-121) with the default threshold
cleanup ==
    /\ pruned' = Entries(stateFile) \ validEntries
    /\ wrote' = (Entries(stateFile) \ validEntries # {})
    /\ stateFile' = Compacted
    /\ reply' = NoReply
    /\ UNCHANGED <<now, maxAgeEnv>>
    /\ UNCHANGED <<watchVars, jiraVars, sessVars, flowVars, mcpVars, routerVars, findVars>>

\* a day passes between two calls
Tick ==
    /\ now < MaxDays * DayMs
    /\ now' = now + DayMs
    /\ reply' = NoReply
    /\ pruned' = {}
    /\ wrote' = FALSE
    /\ UNCHANGED <<stateFile, maxAgeEnv>>
    /\ UNCHANGED <<watchVars, jiraVars, sessVars, flowVars, mcpVars, routerVars, findVars>>

InitState ==
    /\ stateFile = [id \in Comments |-> NoNumber]
    /\ now = 0
    /\ maxAgeEnv \in EnvValues
    /\ reply = NoReply
    /\ pruned = {}
    /\ wrote = FALSE

NextState ==
    \/ getProcessedComments
    \/ IsProcessed
    \/ markProcessed
    \/ cleanup
    \/ Tick

\* ======================================================================
\* The mention router (determineMessageType of src/unnamed/part_012, the
\* later revision of src/lib/opencode/message-router.ts): the match of the
\* response of the classification session against the commands
\* ======================================================================

\* GITLAB_COMMANDS and JIRA_COMMANDS (part_012 lines 52-60), in the order
\* they are declared
GITLAB_COMMANDS == <<"review", "test", "general_question">>
JIRA_COMMANDS == <<"analyze-bug", "create-mr", "general_question">>
Platforms == {"gitlab", "jira"}

\* the words the response of the classification session is made of
Words == {"review", "Review", "preview", "test", "general_question",
          "analyze-bug", "Create-MR", "analyze", "fix"}

\* the characters of a word or of a command
Chars(w) ==
    CASE w = "review" -> <<"r", "e", "v", "i", "e", "w">>
      [] w = "Review" -> <<"R", "e", "v", "i", "e", "w">>
      [] w = "preview" -> <<"p", "r", "e", "v", "i", "e", "w">>
      [] w = "test" -> <<"t", "e", "s", "t">>
      [] w = "general_question" ->
            <<"g", "e", "n", "e", "r", "a", "l", "_",
              "q", "u", "e", "s", "t", "i", "o", "n">>
      [] w = "analyze-bug" ->
            <<"a", "n", "a", "l", "y", "z", "e", "-", "b", "u", "g">>
      [] w = "create-mr" -> <<"c", "r", "e", "a", "t", "e", "-", "m", "r">>
      [] w = "Create-MR" -> <<"C", "r", "e", "a", "t", "e", "-", "M", "R">>
      [] w = "analyze" -> <<"a", "n", "a", "l", "y", "z", "e">>
      [] w = "fix" -> <<"f", "i", "x">>

\* the text of a response: its words with a blank between them
RECURSIVE Text(_)
Text(ws) ==
    IF ws = <<>> THEN <<>>
    ELSE IF Len(ws) = 1 THEN Chars(ws[1])
    ELSE Chars(ws[1]) \o <<" ">> \o Text(Tail(ws))

\* the responses of at most MaxWords words
Responses == UNION {[1..n -> Words] : n \in 0..MaxWords}

\* String.prototype.toLowerCase on the letters that occur
LowerChar(c) ==
    CASE c = "R" -> "r"
      [] c = "C" -> "c"
      [] c = "M" -> "m"
      [] OTHER -> c
toLowerCase(s) == [i \in 1..Len(s) |-> LowerChar(s[i])]

\* String.prototype.includes: t occurs in s as a substring
includes(s, t) ==
    \E i \in 1..(Len(s) - Len(t) + 1) :
        \A k \in 1..Len(t) : s[i + k - 1] = t[k]

\* the loop of lines 131-135 run from the last command to the first
RECURSIVE MatchCommandLast(_, _)
MatchCommandLast(lowerResponse, commands) ==
    IF commands = <<>> THEN "general_question"
    ELSE IF includes(lowerResponse, Chars(commands[Len(commands)]))
    THEN commands[Len(commands)]
    ELSE MatchCommandLast(lowerResponse, SubSeq(commands, 1, Len(commands) - 1))

\* the loop of lines 131-135 without the return of line 138
RECURSIVE MatchCommandNoDefault(_, _)
MatchCommandNoDefault(lowerResponse, commands) ==
    IF commands = <<>> THEN "undefined"
    ELSE IF includes(lowerResponse, Chars(commands[1])) THEN commands[1]
    ELSE MatchCommandNoDefault(lowerResponse, Tail(commands))

\* part_012 lines 131-138 (message-router.ts 43-49): the first command, in
\* the order of the list, that the lowercase response includes;
\* general_question if it includes none
RECURSIVE MatchCommand(_, _)
MatchCommand(lowerResponse, commands) ==
    IF commands = <<>> THEN "general_question"
    ELSE IF includes(lowerResponse, Chars(commands[1])) THEN commands[1]
    ELSE MatchCommand(lowerResponse, Tail(commands))

\* line 129: the commands of the platform
CommandsOf(p) == IF p = "gitlab" THEN GITLAB_COMMANDS ELSE JIRA_COMMANDS

\* determineMessageType (part_012 lines 74-139) after promptAndWaitForResponse
\* has returned response
determineMessageType ==
    /\ messageType = ""
    /\ messageType' = MatchCommand(toLowerCase(Text(response)),
                                   CommandsOf(platform))
    /\ UNCHANGED <<platform, response>>
    /\ UNCHANGED <<watchVars, jiraVars, sessVars, flowVars, mcpVars, storeVars,
                   findVars>>

InitRouter ==
    /\ platform \in Platforms
    /\ response \in Responses
    /\ messageType = ""

NextRouter == determineMessageType

\* ======================================================================
\* findMentionComment as a function of its arguments: jira-utils.ts lines
\* 11-136 ("utils", the processed set is a parameter) and jira-watcher.ts
\* lines 43-84 ("watcher", the processed set is PROCESSED_COMMENTS)
\* ======================================================================

\* how a comment names the bot's account id: not at all, in a node of its
\* ADF content (JSON.stringify(body.content) includes it), or in its text
MentionKinds == {"none", "adf", "text"}

\* a JiraComment: id, created (a time), bot (author.accountId is the bot's),
\* mention (how the body names the bot)
Comment(id, created, bot, mention) ==
    [id |-> id, created |-> created, bot |-> bot, mention |-> mention]

\* the lists of comments an issue can hold: comment i has id i, creation
\* times may coincide and are in no particular order
CommentLists ==
    UNION {[1..n -> [id : Comments, created : 1..NComments, bot : BOOLEAN,
                     mention : MentionKinds]] : n \in 0..NComments}

WellFormed(cs) == \A i \in 1..Len(cs) : cs[i].id = i

\* cs without its element at position i
RemoveAt(cs, i) == SubSeq(cs, 1, i - 1) \o SubSeq(cs, i + 1, Len(cs))

\* SortedComments keeping the oldest first (the comparator a - b)
RECURSIVE SortedCommentsOldestFirst(_)
SortedCommentsOldestFirst(cs) ==
    IF cs = <<>> THEN <<>>
    ELSE LET i == CHOOSE i \in 1..Len(cs) :
                     /\ \A j \in 1..Len(cs) : cs[i].created <= cs[j].created
                     /\ \A j \in 1..(i - 1) : cs[i].created < cs[j].created
         IN <<cs[i]>> \o SortedCommentsOldestFirst(RemoveAt(cs, i))

\* [...comments].sort((a, b) => new Date(b.created) - new Date(a.created))
\* (jira-utils.ts lines 25-27): newest first; Array.prototype.sort is
\* stable, comments of equal time keep their order
RECURSIVE SortedComments(_)
SortedComments(cs) ==
    IF cs = <<>> THEN <<>>
    ELSE LET i == CHOOSE i \in 1..Len(cs) :
                     /\ \A j \in 1..Len(cs) : cs[j].created <= cs[i].created
                     /\ \A j \in 1..(i - 1) : cs[j].created < cs[i].created
         IN <<cs[i]>> \o SortedComments(RemoveAt(cs, i))

\* the test of lines 51-54 (jira-utils.ts) and of line 55 (jira-watcher.ts):
\* the comment is skipped as the bot's own
SkipsBot(c, revision, prod) ==
    c.bot /\ (revision = "watcher" \/ prod)

\* the loop of lines 39-132 (jira-utils.ts) and 53-81 (jira-watcher.ts)
\* over the sorted comments: the id of the comment returned, 0 for null
RECURSIVE FirstMention(_, _, _, _)
FirstMention(sorted, processed, revision, prod) ==
    IF sorted = <<>> THEN 0
    ELSE LET c == Head(sorted)
         IN IF SkipsBot(c, revision, prod)
            THEN FirstMention(Tail(sorted), processed, revision, prod)
            ELSE IF c.id \in processed
            THEN FirstMention(Tail(sorted), processed, revision, prod)
            ELSE IF c.mention \in {"adf", "text"}
            THEN c.id
            ELSE FirstMention(Tail(sorted), processed, revision, prod)

\* one call of findMentionComment
FindMentionCall ==
    /\ findResult = NoNumber
    /\ findResult' = FirstMention(SortedComments(findComments), findProcessed,
                                  findRevision, findProduction)
    /\ UNCHANGED <<findRevision, findProduction, findComments, findProcessed>>
    /\ UNCHANGED <<watchVars, jiraVars, sessVars, flowVars, mcpVars, storeVars,
                   routerVars>>

\* Bun.env.NODE_ENV is read by jira-utils.ts only
InitFind ==
    /\ findRevision \in {"watcher", "utils"}
    /\ findProduction \in (IF findRevision = "watcher" THEN {TRUE} ELSE BOOLEAN)
    /\ findComments \in {cs \in CommentLists : WellFormed(cs)}
    /\ findProcessed \in SUBSET Comments
    /\ findResult = NoNumber

NextFind == FindMentionCall

\* ======================================================================
\* Specifications: one per component, the other components stay at rest
\* ======================================================================

\* the Jira watcher at rest
QuietJira == InitJira /\ jiraVersion = "watcher" /\ production

\* the session at rest
QuietSession == InitSession /\ sessKind = "review"

\* no workflow is running
QuietWorkflow == InitWorkflow /\ wfKind = "review" /\ linked

\* no call has its body built
QuietBody == finding = NoArguments /\ body = NoDiscussion /\ answer = "none"

\* the durable store is not used
QuietState == InitState /\ maxAgeEnv = ""

\* nothing is being classified
QuietRouter == platform = "gitlab" /\ response = <<>> /\ messageType = ""

\* findMentionComment is not being called
QuietFind ==
    /\ findRevision = "watcher"
    /\ findProduction = TRUE
    /\ findComments = <<>>
    /\ findProcessed = {}
    /\ findResult = NoNumber

InitW == /\ InitWatch /\ QuietJira /\ QuietSession /\ QuietWorkflow /\ InitMcp
         /\ QuietBody /\ QuietState /\ QuietRouter /\ QuietFind
InitJ == /\ InitWatch /\ InitJira /\ QuietSession /\ QuietWorkflow /\ InitMcp
         /\ QuietBody /\ QuietState /\ QuietRouter /\ QuietFind
InitS == /\ InitWatch /\ QuietJira /\ InitSession /\ QuietWorkflow /\ InitMcp
         /\ QuietBody /\ QuietState /\ QuietRouter /\ QuietFind
InitF == /\ InitWatch /\ QuietJira /\ QuietSession /\ InitWorkflow /\ InitMcp
         /\ QuietBody /\ QuietState /\ QuietRouter /\ QuietFind
InitM == /\ InitWatch /\ QuietJira /\ QuietSession /\ QuietWorkflow /\ InitMcp
         /\ QuietBody /\ QuietState /\ QuietRouter /\ QuietFind
InitB == /\ InitWatch /\ QuietJira /\ QuietSession /\ QuietWorkflow /\ InitMcp
         /\ InitBody /\ QuietState /\ QuietRouter /\ QuietFind
InitD == /\ InitWatch /\ QuietJira /\ QuietSession /\ QuietWorkflow /\ InitMcp
         /\ QuietBody /\ InitState /\ QuietRouter /\ QuietFind
InitR == /\ InitWatch /\ QuietJira /\ QuietSession /\ QuietWorkflow /\ InitMcp
         /\ QuietBody /\ QuietState /\ InitRouter /\ QuietFind
InitL == /\ InitWatchLog /\ QuietJira /\ QuietSession /\ QuietWorkflow /\ InitMcp
         /\ QuietBody /\ QuietState /\ QuietRouter /\ QuietFind
InitC == /\ InitWatch /\ QuietJira /\ QuietSession /\ QuietWorkflow /\ InitMcp
         /\ QuietBody /\ QuietState /\ QuietRouter /\ InitFind

SpecWatch == InitW /\ [][NextWatch]_vars

SpecJira == InitJ /\ [][NextJira]_vars

SpecJiraRestart == InitJ /\ [][NextJiraRestart]_vars

SpecSession == InitS /\ [][NextSession]_vars

SpecWorkflow == InitF /\ [][NextWorkflow]_vars

SpecMcp == InitM /\ [][NextMcp]_vars
SpecMcpPasses == InitM /\ [][NextMcpPasses]_vars

SpecBody == InitB /\ [][NextBody]_vars

SpecState == InitD /\ [][NextState]_vars

SpecRouter == InitR /\ [][NextRouter]_vars
SpecFind == InitC /\ [][NextFind]_vars
SpecJiraPolling == InitJ /\ [][NextJiraPolling]_vars /\ FairJiraPolling
SpecWatchLog == InitL /\ [][NextWatch]_vars

Init == /\ InitWatch /\ InitJira /\ InitSession /\ InitWorkflow /\ InitMcp
        /\ InitBody /\ InitState /\ InitRouter /\ InitFind
Next == \/ NextWatch \/ NextJiraRestart \/ NextSession \/ NextWorkflow
        \/ NextMcp \/ NextBody \/ NextState \/ NextRouter \/ NextFind
Spec == Init /\ [][Next]_vars

\* ======================================================================
\* Claims about the GitLab watcher (SpecWatch)
\* ======================================================================

\* the callbacks of invocation e that run a workflow for merge request r
RunningOn(e, r) == {i \in Items : Target(i) = r /\ e.task[i] \in ActiveStates}

\* the number of workflows the invocations es run for merge request r
RECURSIVE CountWorkflows(_, _)
CountWorkflows(es, r) ==
    IF es = {} THEN 0
    ELSE LET e == CHOOSE x \in es : TRUE
         IN CopiesIn(e, polls) * Cardinality(RunningOn(e, r))
            + CountWorkflows(es \ {e}, r)

\* the number of workflows running for merge request r
ActiveWorkflows(r) == CountWorkflows(BagToSet(polls), r)

\* C1: at every moment, including overlapping poll ticks and several to-dos
\* of one merge request inside one poll, at most one workflow (review,
\* question or test) is active for a given merge request id.
C1_MutualExclusion ==
    \A r \in MRs : ActiveWorkflows(r) <= 1

\* two polls overlap, one runs a workflow for a merge request and the map
\* call of the other has skipped a to-do of the same merge request
C1_Witness ==
    \E e, f \in BagToSet(polls) : \E i, j \in Items :
        /\ e # f
        /\ f.pc = "awaitAll"
        /\ Target(i) = Target(j)
        /\ e.task[i] \in WorkStates
        /\ mapped[i] = "none"
        /\ mapped[j] = "skipped"

\* C2: whenever a workflow for a merge request has ended, by normal
\* completion or by a thrown error, its id is no longer in MRS_IN_PROGRESS:
\* an id in the set always belongs to a workflow that is still running.
C2_ReleasedWhenEnded ==
    \A r \in MRS_IN_PROGRESS : ActiveWorkflows(r) > 0

ThrowStep(r) ==
    /\ ActiveWorkflows(r) = 1
    /\ ActiveWorkflows(r)' = 0
    /\ r \in MRS_IN_PROGRESS'

\* C11: when the workflow of one to-do throws, the callbacks of the other
\* to-dos stay where they are and keep running, and the detectCommands
\* invocation stays suspended at Promise.allSettled: it is not rejected.
C11_ThrowIsIsolated ==
    [][\A r \in MRs :
          ThrowStep(r) =>
             /\ BagCardinality(polls') = BagCardinality(polls)
             /\ \A q \in MRs \ {r} : ActiveWorkflows(q)' = ActiveWorkflows(q)
             /\ \E e \in BagToSet(polls) : \E i \in Items :
                   /\ Target(i) = r
                   /\ e.pc = "awaitAll"
                   /\ polls' = Replace(polls, e, [e EXCEPT !.task[i] = "none"])
      ]_vars

\* the latest map call started workflows for two merge requests; one of them
\* threw (its id is left in the set), the other ran to its end and the poll
\* has returned
C11_Witness ==
    \E i, j \in Items :
        /\ Target(i) # Target(j)
        /\ mapped[i] = "classify" /\ mapped[j] = "classify"
        /\ Target(i) \in MRS_IN_PROGRESS /\ ActiveWorkflows(Target(i)) = 0
        /\ Target(j) \notin MRS_IN_PROGRESS
        /\ polls = EmptyBag

\* a step in which a scan fails: a scanning invocation goes away without a
\* map call
ScanFailStep ==
    /\ CopiesIn(Scanning, polls') < CopiesIn(Scanning, polls)
    /\ BagCardinality(polls') < BagCardinality(polls)

\* C12: when the scan of a poll tick fails, only that tick is aborted: the
\* in-progress set and the running workflows are untouched (nothing is
\* dispatched), the process keeps running and a later tick can scan again.
C12_ScanFailureAbortsOnlyTick ==
    [][ScanFailStep =>
          /\ processUp'
          /\ MRS_IN_PROGRESS' = MRS_IN_PROGRESS
          /\ polls' = polls (-) SetToBag({Scanning})
          /\ BagCardinality(polls') < MaxPolls
      ]_vars

\* ======================================================================
\* Claims about the Jira watcher (SpecJira, SpecJiraRestart)
\* ======================================================================

\* C3: within one process lifetime, a comment id that the scanner returns in
\* two or more polls, sequential or overlapping, is passed to processMention
\* exactly once.
C3_DispatchedOnce ==
    \A c \in Comments : dispatchCount[c] <= 1

\* a comment was returned again by a later scan after it had been dispatched
C3_Witness ==
    \E c \in rescanned : dispatchCount[c] = 1

\* C9: the processed mark of a comment is written before processMention
\* first suspends: whenever a callback is suspended inside processMention,
\* its comment id is in PROCESSED_COMMENTS.
C9_MarkedBeforeSuspension ==
    \A e \in BagToSet(jpolls) : \A k \in Issues :
        e.task[k] \in JWorkflowStates
            => e.comment[k] \in PROCESSED_COMMENTS

\* a callback is suspended at the classification call, the first await of
\* processMention, in each revision of the watcher
C9_Witness ==
    \E e \in BagToSet(jpolls) : \E k \in Issues :
        /\ e.task[k] = "classify"
        /\ e.comment[k] \in PROCESSED_COMMENTS
        /\ jiraVersion = "watcher"

\* C10: a comment that was dispatched, and so marked processed, before a
\* restart is not dispatched again after the restart.
C10_NoRedispatchAfterRestart ==
    restarts > 0 => \A c \in Comments : dispatchCount[c] <= 1

\* ======================================================================
\* Claims about the OpenCode session (SpecSession)
\* ======================================================================

\* the call ids of which the loop has consumed a completed
\* post_review_comment event
DeliveredCalls == {id \in CallIds : deliveries[id] > 0}

\* C4: in a review session a completed post_review_comment invocation with a
\* given call id produces exactly one comment, however many completed events
\* with that call id are delivered: the handler has created exactly one
\* discussion for it and commentCount counts it once.
C4_OneCommentPerCall ==
    /\ \A id \in CallIds : posted[id] <= 1
    /\ \A id \in DeliveredCalls : posted[id] = 1
    /\ sessKind = "review" => commentCount = Cardinality(DeliveredCalls)

\* the completed event of one call was delivered twice
C4_Witness ==
    \E id \in CallIds :
        /\ sessKind = "review"
        /\ deliveries[id] >= 2
        /\ posted[id] = 1
        /\ commentCount = 1

\* C5: the event subscription is established and the consumption loop is
\* started before the prompt is sent, and no event the session emits is
\* published without a subscriber.
C5_SubscribedBeforePrompt ==
    /\ promptSent => (subscribed /\ loopState # "notStarted")
    /\ ~missed

\* the prompt was sent and a text part emitted after it was consumed
C5_Witness ==
    /\ promptSent
    /\ subscribed
    /\ responseText # <<>>

\* C6: once a session.error event of the session has been delivered, the
\* loop has terminated, the error is recorded, and the session function is
\* suspended or has thrown: it never returns a normal result.
C6_ErrorIsThrown ==
    errDelivered =>
        /\ loopState = "ended"
        /\ error
        /\ sessPc \in {"awaitPrompt", "awaitLoop", "thrown"}

\* a session.error arrived after a text part and the session function threw
C6_Witness ==
    /\ errDelivered
    /\ responseText # <<>>
    /\ sessPc = "thrown"

\* C7: once a session.error event of the session has been delivered, no
\* step counts or posts a finding: commentCount, processedToolCalls and the
\* posted discussions stay as they are.
C7_NoFindingAfterError ==
    [][errDelivered =>
          /\ commentCount' = commentCount
          /\ processedToolCalls' = processedToolCalls
          /\ posted' = posted
          /\ deliveries' = deliveries]_vars

\* a completed post_review_comment event waits in the stream after the
\* session.error was delivered
C7_Witness ==
    /\ errDelivered
    /\ sessKind = "review"
    /\ \E n \in 1..Len(stream) :
          stream[n].own /\ stream[n].kind = "toolCompleted"

\* ======================================================================
\* Claims about one workflow run (SpecWorkflow)
\* ======================================================================

\* C13: when a workflow is aborted by a terminal session error, exactly one
\* error comment is posted for that work item, not zero and not more.
C13_OneErrorCommentOnSessionError ==
    Ended /\ wfCause = "session" => wfComments["error"] = 1

\* C14: a platform API failure at any step of a workflow is not retried (no
\* action returns to an await that was left) and is surfaced as an error
\* comment posted back to the originating thread.
C14_ApiFailureIsSurfaced ==
    Ended /\ wfCause = "api" => wfComments["error"] >= 1

\* C15: for an issue whose Jira project has no linked workspace, the run
\* that ends without a failure has provisioned no workspace, has created no
\* AI session and has posted an informational comment.
C15_UnlinkedStopsBeforeSession ==
    wfKind = "jira" /\ ~linked /\ wfPc = "returned" /\ wfCause = "none"
        => /\ workspace = "none"
           /\ aiSessions = 0
           /\ wfComments["info"] = 1

\* C17: when no discussion can be matched to the triggering to-do, the run
\* neither fails because of that nor stays silent: unless something else
\* failed, it returns and has posted a new top-level comment.
C17_FallsBackToTopLevelComment ==
    Ended /\ initialDiscussion = "missing" /\ wfCause \in {"none", "lookup"}
        => /\ wfPc = "returned"
           /\ wfComments["toplevel"] >= 1

\* C18: every workspace provisioned for a workflow is released on every
\* exit path: when the run has ended, by return, by a thrown error or after
\* a failed clone, no directory of it is left.
C18_WorkspaceReleasedOnExit ==
    Ended => workspace # "provisioned"

\* ======================================================================
\* Claims about the MCP server process (SpecMcp, SpecBody)
\* ======================================================================

\* C16: a post_review_comment call whose arguments fail the schema is
\* answered with the invalid-parameters error and posts nothing, and it
\* leaves the server serving: a call with arguments the schema accepts is
\* never answered with that error, whatever was called before it.
C16_InvalidArgumentsRejected ==
    \A i \in Called :
        /\ ~SchemaAccepts(toolCalls[i].args)
              => /\ toolCalls[i].pc = "answered"
                 /\ toolCalls[i].response = "InvalidParams"
                 /\ ~toolCalls[i].discussion.posted
        /\ SchemaAccepts(toolCalls[i].args)
              => toolCalls[i].response # "InvalidParams"

\* a rejected call, and after it a call that posted its comment
C16_Witness ==
    \E i, j \in Called :
        /\ i < j
        /\ ~SchemaAccepts(toolCalls[i].args)
        /\ toolCalls[i].response = "InvalidParams"
        /\ toolCalls[j].response = "success"
        /\ toolCalls[j].discussion.posted

\* the calls that have created a discussion with a position
Positioned == {i \in Called : toolCalls[i].discussion.posted
                                /\ toolCalls[i].discussion.position.positioned}

\* C19: all positioned comments posted for one merge request during one
\* review pass carry the same version (base, start and head commit), even
\* if the merge request gets a new version meanwhile and even if several
\* tool calls resolve the version concurrently.
C19_OneVersionPerPass ==
    \A i, j \in Positioned :
        LET p == toolCalls[i].discussion.position
            q == toolCalls[j].discussion.position
        IN <<p.base_sha, p.start_sha, p.head_sha>>
               = <<q.base_sha, q.start_sha, q.head_sha>>

\* C20: for every finding whose suggestedCode is not absent, the empty
\* string included, the body of the posted comment embeds a suggestion
\* block, with linesAbove and linesBelow taken as 0 when omitted.
C20_SuggestionEmbedded ==
    answer = "success" /\ finding.suggestedCode # Absent
        => body.body.suggestion = Suggestion(finding)

\* C21: the header of the suggestion block is exactly
\* suggestion:-{linesAbove}+{linesBelow}, a count left out read as 0, and
\* its payload is exactly suggestedCode; suggestedCode "" with linesAbove 1
\* and linesBelow 1 gives the header suggestion:-1+1 and an empty payload.
C21_SuggestionHeaderAndPayload ==
    answer = "success" /\ body.body.suggestion.present
        => LET above == IF finding.suggestionLinesAbove = NoNumber
                        THEN 0 ELSE finding.suggestionLinesAbove
               below == IF finding.suggestionLinesBelow = NoNumber
                        THEN 0 ELSE finding.suggestionLinesBelow
               block == body.body.suggestion
           IN /\ block.header
                    = "suggestion:-" \o ToString(above) \o "+" \o ToString(below)
              /\ block.code = finding.suggestedCode
              /\ (above = 2 /\ below = 1) => block.header = "suggestion:-2+1"
              /\ (finding.suggestedCode = "" /\ above = 1 /\ below = 1)
                    => block.header = "suggestion:-1+1" /\ block.code = ""

\* the body built for suggestedCode "", linesAbove 1, linesBelow 1
C21_Witness ==
    /\ answer = "success"
    /\ finding.suggestedCode = ""
    /\ finding.suggestionLinesAbove = 1
    /\ finding.suggestionLinesBelow = 1
    /\ body.body.suggestion.present
    /\ body.body.suggestion.header = "suggestion:-1+1"
    /\ body.body.suggestion.code = ""

\* C22 as stated: a finding yields a positioned comment carrying the three
\* commits, the path and the line if and only if both file and line are
\* present; otherwise it yields a comment without position.
C22_PositionedIffFileAndLine ==
    answer = "success"
        => /\ body.position.positioned
                 <=> (finding.file # Absent /\ finding.line # NoNumber)
           /\ body.position.positioned
                 => /\ body.position.new_path = finding.file
                    /\ body.position.new_line = finding.line
                    /\ body.position.head_sha = upstream

\* C22, amended: a finding yields a positioned comment carrying the three
\* commits, the path and the line if and only if file is present and not
\* the empty string and line is present; otherwise it yields a comment
\* without position.
C22_PositionedIffFileNameAndLine ==
    answer = "success"
        => /\ body.position.positioned
                 <=> (finding.file \notin {Absent, ""} /\ finding.line # NoNumber)
           /\ body.position.positioned
                 => /\ body.position.new_path = finding.file
                    /\ body.position.new_line = finding.line
                    /\ body.position.base_sha = upstream
                    /\ body.position.start_sha = upstream
                    /\ body.position.head_sha = upstream
           /\ ~body.position.positioned => body.position = NoPosition

\* a comment on a line of a file, posted with its position
C22_Witness ==
    /\ answer = "success"
    /\ finding.file = "src/a.ts"
    /\ finding.line = 7
    /\ body.posted
    /\ body.position.positioned
    /\ body.position.new_path = "src/a.ts"
    /\ body.position.new_line = 7

\* ======================================================================
\* Claims about the durable store of processed comments (SpecState)
\* ======================================================================

\* C23: for every entry of the store, isProcessed(id) is false when
\* now - timestamp > maxAge and true otherwise; an entry 8 days old under
\* the max-age of 7 days reports not processed.
C23_ExpiredIsNotProcessed ==
    [][\A id \in Comments :
          isProcessed(id) /\ stateFile[id] # NoNumber
              => /\ reply'.has <=> ~(now - stateFile[id] > getMaxAgeMs)
                 /\ (now - stateFile[id] = 8 * DayMs /\ maxAgeEnv = "")
                       => ~reply'.has]_vars

\* isProcessed has answered false for an entry that was 8 days old, under
\* the default max-age of 7 days
C23_Witness ==
    /\ maxAgeEnv = ""
    /\ now = 8 * DayMs
    /\ reply.id \in pruned
    /\ ~reply.has

Included ==
    {i \in 1..Len(CommandsOf(platform)) :
        includes(toLowerCase(Text(response)), Chars(CommandsOf(platform)[i]))}

\* C25: when the lowercase response of the classification session includes
\* the keywords of several commands, determineMessageType returns the one
\* that is declared first in the list of the platform
C25_FirstDeclaredWins ==
    (messageType # "" /\ Cardinality(Included) >= 2)
        => \E i \in Included :
              /\ \A j \in Included : i <= j
              /\ messageType = CommandsOf(platform)[i]

\* a GitLab response naming test before review is classified as review
C25_Witness ==
    /\ platform = "gitlab"
    /\ response = <<"test", "Review">>
    /\ Included = {1, 2}
    /\ messageType = "review"

\* C26: on either platform a response that includes none of the keywords of
\* the platform is classified as general_question, and the result is always
\* one of the commands of the platform
C26_DefaultIsGeneralQuestion ==
    messageType # ""
        => /\ Included = {} => messageType = "general_question"
           /\ \E i \in 1..Len(CommandsOf(platform)) :
                 messageType = CommandsOf(platform)[i]

\* a Jira response with a word of the prompt but no keyword gets the default
C26_Witness ==
    /\ platform = "jira"
    /\ response = <<"analyze", "fix">>
    /\ Included = {}
    /\ messageType = "general_question"

\* ======================================================================
\* Claims about the terminal events of a session (SpecSession)
\* ======================================================================

\* the statement of C27 without a condition on the prompt: once a
\* session.idle event of the session has been delivered the session function
\* never throws
C27_IdleReturnsNormally ==
    idleDelivered =>
        /\ loopState = "ended"
        /\ ~error
        /\ sessPc \in {"awaitPrompt", "awaitLoop", "returned"}

\* C27: from the step that delivers a session.idle event of the session on,
\* the loop has terminated without an error, no later event changes the text,
\* the comment count or the processed call ids, and the session function,
\* unless the sending of the prompt has failed, is suspended or has returned
\* normally: its await of eventProcessor can only end in the return
C27_IdleEndsLoopAndFreezesResult ==
    [][/\ idleDelivered' =>
             /\ loopState' = "ended"
             /\ ~error'
             /\ ~promptFailed' => sessPc' \in {"awaitPrompt", "awaitLoop", "returned"}
       /\ idleDelivered =>
             /\ responseText' = responseText
             /\ commentCount' = commentCount
             /\ processedToolCalls' = processedToolCalls
             /\ (sessPc = "awaitLoop" /\ sessPc' # sessPc) => sessPc' = "returned"]_vars

\* the review session returned after session.idle with one comment counted,
\* and a completed event of that call, delivered afterwards, waits unread
C27_Witness ==
    /\ idleDelivered
    /\ sessPc = "returned"
    /\ sessKind = "review"
    /\ commentCount = 1
    /\ \E n \in 1..Len(stream) :
          stream[n].own /\ stream[n].kind = "toolCompleted"

\* C28: the iteration of the loop that consumes a tool part in state error
\* of the session leaves the loop running and changes neither the error,
\* the position of the session function, the response text, the comment
\* count nor the processed call ids
C28_ToolErrorOnlyLogged ==
    [][(ConsumeEvent /\ Head(stream).own /\ Head(stream).kind = "toolError")
          => /\ loopState' = "running"
             /\ UNCHANGED <<error, sessPc, responseText, commentCount,
                            processedToolCalls, errDelivered, idleDelivered,
                            posted, deliveries>>]_vars

\* the errored event of the second invocation was consumed (the stream is
\* empty again) after the first invocation was counted, the loop still runs
C28_Witness ==
    /\ sessKind = "review"
    /\ calls = 2
    /\ posted[1] = 1
    /\ posted[2] = 0
    /\ commentCount = 1
    /\ stream = <<>>
    /\ loopState = "running"
    /\ ~error

\* the statement of C29 as it is worded: after the prompt was sent and
\* accepted, the session function has ended only if a session.idle or a
\* session.error event of the session was delivered
C29_EndsOnlyOnTerminalEvent ==
    (promptSent /\ ~promptFailed /\ sessPc \in {"returned", "thrown"})
        => (idleDelivered \/ errDelivered)

\* C29: after the prompt was sent and accepted, and as long as the event
\* stream stays open, the session function has ended only if a session.idle
\* or a session.error event of the session was delivered: nothing else (no
\* timer, no cancellation) ends the loop or the await of eventProcessor
C29_BlockedWhileStreamOpen ==
    /\ loopState = "ended" => (idleDelivered \/ errDelivered \/ streamState # "open")
    /\ (promptSent /\ ~promptFailed /\ sessPc \in {"returned", "thrown"})
          => loopState = "ended"

\* a hung session: the prompt was accepted, every event the server could
\* publish was consumed, none was terminal, the function is still suspended
C29_Witness ==
    /\ sessPc = "awaitLoop"
    /\ loopState = "running"
    /\ streamState = "open"
    /\ stream = <<>>
    /\ emitted = MaxEvents
    /\ ~idleDelivered /\ ~errDelivered

\* C30: once the sending of the prompt has failed the session function has
\* thrown: it returns no result, whatever the event loop receives
C30_PromptFailureIsThrown ==
    promptFailed => sessPc = "thrown"

\* the sending of the prompt failed while the session produced text and
\* went idle
C30_Witness ==
    /\ promptFailed
    /\ sessPc = "thrown"
    /\ idleDelivered
    /\ responseText # <<>>

\* ======================================================================
\* Claims about what the watchers dispatch
\* ======================================================================

\* C31: no workflow is dispatched for an item the bot authored: the filter
\* of detectCommands lets no to-do of the bot through, and processMention
\* is never called for a comment of the bot
C31_NoSelfDispatch ==
    /\ \A todos \in SUBSET Items : \A selfs \in SUBSET Items :
          DirectMentions(todos, selfs) \cap selfs = {}
    /\ ~selfDispatched

\* the positions of the comments findMentionComment may return: not
\* authored by the bot, not in the processed set, naming the bot's account
\* id in the ADF content or in the text
Eligible ==
    {i \in 1..Len(findComments) :
        /\ ~findComments[i].bot
        /\ findComments[i].id \notin findProcessed
        /\ findComments[i].mention \in {"adf", "text"}}

\* C32: findMentionComment returns a comment of the latest creation time
\* among the comments that the bot did not author, that are not in the
\* processed set and that name the bot's account id; it returns null
\* exactly when there is no such comment
C32_NewestEligibleMention ==
    findResult # NoNumber
        => /\ findResult = 0 <=> Eligible = {}
           /\ findResult # 0
                 => /\ findResult \in Eligible
                    /\ \A j \in Eligible :
                          findComments[j].created <= findComments[findResult].created

\* C33: a comment id is in PROCESSED_COMMENTS only if processMention was
\* called for that comment: a comment the scan has only examined, and that
\* does not name the bot, is not marked
C33_MarkedOnlyWhenDispatched ==
    \A c \in PROCESSED_COMMENTS : dispatchCount[c] > 0

\* C34: a to-do whose workflow ran to its end and returned is not
\* dispatched again by a later poll, whatever the platform still returns
C34_FinishedTodoNotRedispatched ==
    todoLog.again = {}

\* ----------------------------------------------------------------------
\* C35  Every Jira mention that was selected and marked processed gets a
\* comment on its issue (a result, an informational message or an error
\* message) once its processMention run has ended, provided the AI
\* sessions terminated and no jiraClient.addComment rejected.
\* ----------------------------------------------------------------------
C35_MentionAlwaysAnswered ==
    (wfKind = "jira" /\ Ended /\ ~addCommentFailed)
        => wfComments["result"] + wfComments["info"] + wfComments["error"] > 0

\* C36: the session function has returned a result only if a session.idle
\* event of its own session was delivered to the loop; an event stream that
\* ends without a terminal event of the session does not make it return
C36_ReturnsOnlyAfterIdle ==
    sessPc = "returned" => idleDelivered

\* C37: the response text holds the text of each completed text part of
\* the session exactly once, in the order of delivery, even when the
\* update event of a part is delivered more than once: no part occurs
\* twice in it and the parts stand in the order they were completed
C37_EachTextPartOnce ==
    \A i, j \in 1..Len(responseText) :
        i < j => responseText[i] < responseText[j]

\* C38: the iteration of the loop that consumes an event of another session
\* (a text part, a tool part, session.idle or session.error) leaves the loop
\* running and changes neither the response text, the comment count, the
\* processed call ids, the error nor the position of the session function
C38_OtherSessionsIgnored ==
    [][(ConsumeEvent /\ ~Head(stream).own)
          => /\ loopState' = "running"
             /\ UNCHANGED <<responseText, commentCount, processedToolCalls,
                            error, sessPc, idleDelivered, errDelivered,
                            deliveries>>]_vars

\* the loop has consumed an event of another session as well as a completed
\* tool part and a text part of its own session: it still runs, with one
\* comment counted and one text part in the response
C38_Witness ==
    /\ otherDelivered
    /\ sessKind = "review"
    /\ loopState = "running"
    /\ stream = <<>>
    /\ responseText = <<1>>
    /\ commentCount = 1
    /\ ~error

\* ======================================================================
\* Claims about the progress of the Jira polling (SpecJiraPolling)
\* ======================================================================

\* C39: when an issue holds several unprocessed comments that mention the
\* bot, and polling continues with the issue inside the scan window, every
\* one of them is eventually dispatched to processMention: a state is
\* reached in which processMention has been called for each of them
C39_EveryMentionDispatched ==
    <>(\A c \in Comments : dispatchCount[c] > 0)

\* the newer comment of an issue was dispatched by one poll and the older
\* one by a later poll, each once, while the first workflow still runs
C39_Witness ==
    /\ \A c \in Comments : dispatchCount[c] = 1
    /\ PROCESSED_COMMENTS = Comments
    /\ \E e \in BagToSet(jpolls) : \E k \in Issues :
          /\ e.task[k] \in JWorkflowStates
          /\ e.comment[k] = NewestFirst(CommentsOf(k))
    /\ \E e \in BagToSet(jpolls) : \E k \in Issues :
          /\ e.task[k] \in JWorkflowStates
          /\ e.comment[k] # NewestFirst(CommentsOf(k))

\* ======================================================================
\* Claims about successive review passes (SpecMcpPasses)
\* ======================================================================

\* C40: a positioned comment of a review pass is anchored to a version of
\* the merge request that is not older than the latest version at the start
\* of the pass: a pass that starts after a new diff version uses the new
\* base/start/head triple, not one cached during an earlier pass
C40_PassUsesVersionOfItsStart ==
    \A i \in Positioned :
        LET p == toolCalls[i].discussion.position
        IN /\ p.base_sha >= passVersion
           /\ p.start_sha >= passVersion
           /\ p.head_sha >= passVersion

====
